---- MODULE Spec2Model ----
(***************************************************************************)
(* A model of the ppk2 host driver: the sample accumulator                 *)
(* (src/src/measurement.rs and the earlier src/ppk2/src/measurement.rs),   *)
(* the chunk reducer (MeasurementIterExt) and the streaming pipeline of    *)
(* Ppk2::start_measuring_while_matches (src/ppk2/src/lib.rs).              *)
(*                                                                         *)
(* Conventions.                                                            *)
(*  - Option<T>: None is <<>>, Some(x) is <<x>>.                           *)
(*  - A u32 sample word is held as [lo |-> bits 0..23, hi |-> bits 24..31] *)
(*    because the model checker's integers are 32-bit signed.              *)
(*  - f32 currents are held as integers in a fixed-point unit; the floor   *)
(*    division of the integers stands for the rounding of f32.  An         *)
(*    average is kept as the pair sum / denominator, undivided.            *)
(*  - Arrays are 1-based: pin i of the source is index i + 1, range r is   *)
(*    index r + 1.                                                         *)
(***************************************************************************)
EXTENDS Integers, Sequences, FiniteSets, TLC

VARIABLES
    \* ---- the accumulator (MeasurementAccumulator) and its caller's locals
    impl,             \* which feed_into is compiled in: "src" or "ppk2"
    state,            \* AccumulatorState
    abuf,             \* MeasurementAccumulator.buf: bytes of an unfinished word
    measurement_buf,  \* the VecDeque the measurements are pushed into
    missed,           \* missed samples accumulated by the caller
    pending,          \* bytes of a word the device has sent and the host has not read
    nwords,           \* sample words produced by the device so far
    dev_counter,      \* the counter of the last word the device produced (Option)
    lost,             \* samples the device produced and the link lost, in total
    last,             \* what the last feed_into call did, word by word
    \* ---- the chunk reducer under test
    rin,              \* input of the reducer: [chunk, missed, pattern], or <<>>
    rout,             \* its outcome, or <<>>
    \* ---- the streaming pipeline (start_measuring_while_matches)
    params,           \* the arguments of start: [pins, sps]
    fpc,              \* where the foreground is in start_measuring_while_matches
    rpc,              \* where the reader thread is
    rres,             \* what the reader's closure returned
    spc,              \* where the stop closure is
    sres,             \* what the stop closure returned
    mutex,            \* who holds the mutex of ready: "free", "fg" or "reader"
    ready,            \* the boolean the mutex guards
    cleared,          \* port.clear(Input) has returned Ok
    sig,              \* stop channel: [queued, tx, rx] (messages, ends alive)
    meas,             \* sample channel: [queue, tx, rx]
    outbox,           \* the chunk the reader is about to send (Option)
    written,          \* the commands written to the port, in order
    received,         \* what the consumer has received, in order
    disconnected,     \* the consumer's receive has returned Disconnected
    hist,             \* observations: [has_read, stop_sent, reads_after_stop, ...]
    \* ---- the command codec, the metadata parser and send_command
    fin,              \* input of the function under test (Option)
    fout,             \* what it returned (Option)
    sc                \* a send_command call: [pc, command, response, out, wire, block, reads, result]

accVars == <<impl, state, abuf, measurement_buf, missed, pending, nwords, dev_counter, lost, last>>
redVars == <<rin, rout>>
pipeVars == <<params, fpc, rpc, rres, spc, sres, mutex, ready, cleared, sig, meas, outbox,
              written, received, disconnected, hist>>
cmdVars == <<fin, fout, sc>>
vars == <<impl, state, abuf, measurement_buf, missed, pending, nwords, dev_counter, lost, last,
          rin, rout,
          params, fpc, rpc, rres, spc, sres, mutex, ready, cleared, sig, meas, outbox,
          written, received, disconnected, hist,
          fin, fout, sc>>

None == <<>>
Some(x) == <<x>>
IsSome(o) == o /= <<>>
Unwrap(o) == o[1]

Pow2(n) == 2 ^ n

(***************************************************************************)
(* Bounds of the model.                                                    *)
(***************************************************************************)
\* sample words the device produces in a run of the accumulator
MaxWords == 2

(***************************************************************************)
(* types.rs: Level, LogicPortPins                                          *)
(***************************************************************************)
Level == {"Low", "High", "Either"}

\* impl From<bool> for Level
LevelFromBool(b) == IF b THEN "High" ELSE "Low"

\* Level::is_high
is_high(l) == l = "High"

\* A mutant of Level::matches: Either in the pattern no longer matches.
matches_NoEither(self, other) ==
    \/ self = "Either"
    \/ self = "Low" /\ other = "Low"
    \/ self = "High" /\ other = "High"

\* Level::matches
matches(self, other) ==
    CASE other = "Either" -> TRUE
      [] self = "Either" -> TRUE
      [] self = "Low" /\ other = "Low" -> TRUE
      [] self = "High" /\ other = "High" -> TRUE
      [] OTHER -> FALSE

\* impl From<u8> for LogicPortPins (through From<[bool; 8]>)
LogicPortPinsFromU8(inner) ==
    [i \in 1..8 |-> LevelFromBool((inner \div Pow2(i - 1)) % 2 /= 0)]

(***************************************************************************)
(* measurement.rs: the bit fields of a sample word                         *)
(***************************************************************************)
\* u32::from_le_bytes
from_le_bytes(chunk) ==
    [lo |-> chunk[1] + 256 * chunk[2] + 65536 * chunk[3], hi |-> chunk[4]]

\* masked_value!: (raw & generate_mask(bits, pos)) >> pos
masked_value(raw, bits, pos) ==
    IF pos >= 24
    THEN (raw.hi \div Pow2(pos - 24)) % Pow2(bits)
    ELSE (raw.lo \div Pow2(pos)) % Pow2(bits)

get_adc(raw) == masked_value(raw, 14, 0)
get_range(raw) == masked_value(raw, 3, 14)
get_counter(raw) == masked_value(raw, 6, 18)
get_logic(raw) == masked_value(raw, 8, 24)

Min(a, b) == IF a < b THEN a ELSE b

(***************************************************************************)
(* measurement.rs: calibration and the spike filter                        *)
(***************************************************************************)
SPIKE_FILTER_ALPHA_PCT == 18
SPIKE_FILTER_ALPHA_5_PCT == 6
SPIKE_FILTER_SAMPLES == 3

\* The calibration record the accumulator is built with.  The values are
\* integers: r halves from range to range, as the shunt resistances fall.
ModelMetadata ==
    [modifiers |-> [r  |-> <<16, 8, 4, 2, 1>>,
                    gs |-> <<0, 0, 0, 0, 0>>,
                    gi |-> <<1, 1, 1, 1, 1>>,
                    o  |-> <<0, 0, 0, 0, 0>>,
                    s  |-> <<0, 0, 0, 0, 0>>,
                    i  |-> <<0, 0, 0, 0, 0>>,
                    ug |-> <<1, 1, 1, 1, 1>>],
     vdd |-> 3000]

\* MeasurementAccumulator::new
NewAccumulatorState ==
    [rolling_avg_4 |-> None,
     rolling_avg |-> None,
     prev_range |-> None,
     after_spike |-> 0,
     consecutive_range_sample |-> 0,
     expected_counter |-> None]

\* alpha * adc + (1 - alpha) * avg, alpha given in percent
Ema(pct, adc, avg) == (pct * adc + (100 - pct) * avg) \div 100

\* The calibration arithmetic of get_adc_result (its first two statements).
Calibrate(metadata, range, adc_val) ==
    LET m == metadata.modifiers
        r == range + 1
        \* (adc_val - o) * (ADC_MULTIPLIER / r), with ADC_MULTIPLIER held as 16
        \* fixed-point units
        result_without_gain == ((adc_val - m.o[r]) * 16) \div m.r[r]
    IN  m.ug[r] * (result_without_gain * (m.gs[r] * result_without_gain + m.gi[r])
                   + (m.s[r] * (metadata.vdd \div 1000) + m.i[r]))

\* A mutant of the range-switch block: a range switch arms after_spike too.
RangeSwitchBlock_Arms(st, s1, range, same) ==
    LET crs == IF same THEN 0 ELSE st.consecutive_range_sample + 1
        rollback == range = 4 /\ crs < 2
    IN  [s1 EXCEPT !.consecutive_range_sample = crs,
                   !.after_spike = SPIKE_FILTER_SAMPLES - 1,
                   !.rolling_avg_4 = IF rollback THEN st.rolling_avg_4 ELSE @,
                   !.rolling_avg = IF rollback THEN st.rolling_avg ELSE @]

\* A mutant of the range-switch block: after_spike is left as it is.
RangeSwitchBlock_NoDecrement(st, s1, range, same) ==
    LET crs == IF same THEN 0 ELSE st.consecutive_range_sample + 1
        spike == IF same THEN SPIKE_FILTER_SAMPLES ELSE st.after_spike
        rollback == range = 4 /\ crs < 2
    IN  [s1 EXCEPT !.consecutive_range_sample = crs,
                   !.after_spike = spike,
                   !.rolling_avg_4 = IF rollback THEN st.rolling_avg_4 ELSE @,
                   !.rolling_avg = IF rollback THEN st.rolling_avg ELSE @]

\* The range-switch block of get_adc_result, entered with the averages
\* already updated (s1) and the previous range seeded.  same: prev_range is
\* the sample's range.
RangeSwitchBlock(st, s1, range, same) ==
    LET crs == IF same THEN 0 ELSE st.consecutive_range_sample + 1
        spike == IF same THEN SPIKE_FILTER_SAMPLES ELSE st.after_spike
        rollback == range = 4 /\ crs < 2
    IN  [s1 EXCEPT !.consecutive_range_sample = crs,
                   !.after_spike = spike - 1,
                   !.rolling_avg_4 = IF rollback THEN st.rolling_avg_4 ELSE @,
                   !.rolling_avg = IF rollback THEN st.rolling_avg ELSE @]

\* A mutant of the block's result: rolling_avg is returned in every range.
BlockResult_AlwaysAvg(s2, range) ==
    [state |-> s2,
     panic |-> ~IsSome(s2.rolling_avg),
     adc |-> IF IsSome(s2.rolling_avg) THEN Unwrap(s2.rolling_avg) ELSE 0,
     fired |-> TRUE]

\* The value get_adc_result returns when the range-switch block ran;
\* .unwrap() of a None average panics.
BlockResult(s2, range) ==
    [state |-> s2,
     panic |-> IF range = 4 THEN ~IsSome(s2.rolling_avg_4) ELSE ~IsSome(s2.rolling_avg),
     adc |-> IF range = 4
             THEN (IF IsSome(s2.rolling_avg_4) THEN Unwrap(s2.rolling_avg_4) ELSE 0)
             ELSE (IF IsSome(s2.rolling_avg) THEN Unwrap(s2.rolling_avg) ELSE 0),
     fired |-> TRUE]

\* A mutant of the spike filter: prev_range is not seeded by the first
\* sample before it is compared.
SpikeFilter_NoSeed(st, range, adc) ==
    LET s1 == [st EXCEPT
                 !.rolling_avg = Some(IF IsSome(st.rolling_avg)
                                      THEN Ema(SPIKE_FILTER_ALPHA_PCT, adc, Unwrap(st.rolling_avg))
                                      ELSE adc),
                 !.rolling_avg_4 = Some(IF IsSome(st.rolling_avg_4)
                                        THEN Ema(SPIKE_FILTER_ALPHA_5_PCT, adc, Unwrap(st.rolling_avg_4))
                                        ELSE adc),
                 !.prev_range = Some(range)]
        same == st.prev_range = Some(range)
    IN  IF ~same \/ st.after_spike > 0
        THEN BlockResult(RangeSwitchBlock(st, s1, range, same), range)
        ELSE [state |-> s1, panic |-> FALSE, adc |-> adc, fired |-> FALSE]

\* The spike filter of get_adc_result, from the update of the two rolling
\* averages to the end.  adc is the calibrated value.
SpikeFilter(st, range, adc) ==
    LET s1 == [st EXCEPT
                 !.rolling_avg = Some(IF IsSome(st.rolling_avg)
                                      THEN Ema(SPIKE_FILTER_ALPHA_PCT, adc, Unwrap(st.rolling_avg))
                                      ELSE adc),
                 !.rolling_avg_4 = Some(IF IsSome(st.rolling_avg_4)
                                        THEN Ema(SPIKE_FILTER_ALPHA_5_PCT, adc, Unwrap(st.rolling_avg_4))
                                        ELSE adc),
                 !.prev_range = Some(range)]
        \* state.prev_range.get_or_insert(range), then matches!(.., Some(r) if r == range)
        same == IF IsSome(st.prev_range) THEN st.prev_range = Some(range) ELSE TRUE
    IN  IF ~same \/ st.after_spike > 0
        THEN BlockResult(RangeSwitchBlock(st, s1, range, same), range)
        ELSE [state |-> s1, panic |-> FALSE, adc |-> adc, fired |-> FALSE]

\* get_adc_result: returns [state, adc, panic, fired]; fired tells whether the
\* range-switch block ran (an observation, not part of the code's result).
get_adc_result(metadata, st, range, adc_val) ==
    SpikeFilter(st, range, Calibrate(metadata, range, adc_val))

(***************************************************************************)
(* measurement.rs: MeasurementAccumulator::feed_into                       *)
(***************************************************************************)
\* The 4-byte chunks of self.buf[..end]
ChunksExact4(bytes) ==
    [k \in 1..(Len(bytes) \div 4) |-> SubSeq(bytes, 4 * k - 3, 4 * k)]

\* src/src/measurement.rs: what a word whose counter is not the expected one
\* adds to samples_missed; 0 when the word is not a gap.
GapSize(prev_count, counter) ==
    IF prev_count < counter THEN counter - prev_count
    ELSE IF prev_count > counter THEN prev_count - counter
    ELSE 0

\* A mutant of the expected-counter update: no wrap at 64.
NextExpected_NoWrap(counter) == counter + 1

\* (counter + 1) & 0x3F
NextExpected(counter) == (counter + 1) % 64

\* src/src/measurement.rs: the gap test (if let Some(prev_count) = ...)
IsGap(prev_expected_counter, counter) ==
    /\ IsSome(prev_expected_counter)
    /\ \/ Unwrap(prev_expected_counter) < counter
       \/ Unwrap(prev_expected_counter) > counter

\* src/ppk2/src/measurement.rs: the gap test
IsGapPpk2(prev_expected_counter, counter) == prev_expected_counter /= Some(counter)

\* A mutant of the gap branch: the word is run through get_adc_result before
\* the continue.
WordEvent_GapFiltered(cur, counter, range, gap, added, res) ==
    [prev |-> cur.state.expected_counter, counter |-> counter, range |-> range,
     gap |-> gap, added |-> added,
     pushed |-> IF gap THEN 0 ELSE 1,
     fired |-> ~gap /\ res.fired,
     before |-> cur.state,
     after |-> res.state,
     adc |-> IF gap THEN 0 ELSE res.adc]

\* What one word did, for the properties to read.
WordEvent(cur, counter, range, gap, added, res) ==
    [prev |-> cur.state.expected_counter, counter |-> counter, range |-> range,
     gap |-> gap, added |-> added,
     pushed |-> IF gap THEN 0 ELSE 1,
     fired |-> ~gap /\ res.fired,
     before |-> cur.state,
     after |-> IF gap
               THEN [cur.state EXCEPT !.expected_counter = Some(NextExpected(counter))]
               ELSE res.state,
     adc |-> IF gap THEN 0 ELSE res.adc]

\* The end of the loop body: a gap is counted (src) or pushed (ppk2), any
\* other word is pushed as a measurement.  item is the element pushed.
FeedCommit(cur, ev, item) ==
    [state |-> ev.after,
     deque |-> IF item = <<>> THEN cur.deque ELSE Append(cur.deque, item[1]),
     samples_missed |-> cur.samples_missed + ev.added,
     events |-> Append(cur.events, ev),
     panic |-> cur.panic]

\* src/src/measurement.rs: the loop body of feed_into for the decoded fields of
\* one word.  cur is [state, deque, samples_missed, events, panic]; res is
\* what get_adc_result returns for the word.
FeedSample(cur, counter, range, pins, gap, res) ==
    IF gap
    THEN FeedCommit(cur,
                    WordEvent(cur, counter, range, TRUE,
                              GapSize(Unwrap(cur.state.expected_counter), counter), res),
                    <<>>)
    ELSE FeedCommit([cur EXCEPT !.panic = res.panic],
                    WordEvent(cur, counter, range, FALSE, 0, res),
                    \* get_adc_result(..) * 10f32.powi(6): the same fixed-point
                    \* number, read in a unit a million times smaller
                    <<[micro_amps |-> res.adc, pins |-> pins]>>)

\* src/ppk2/src/measurement.rs: the same, pushing Err(MeasurementMissed) for a
\* gap and Ok(Measurement) otherwise.
FeedSamplePpk2(cur, counter, range, gap, res) ==
    IF gap
    THEN FeedCommit(cur,
                    WordEvent(cur, counter, range, TRUE, 0, res),
                    <<[missed |-> TRUE,
                       expected_counter |-> cur.state.expected_counter,
                       actual_counter |-> counter]>>)
    ELSE FeedCommit([cur EXCEPT !.panic = res.panic],
                    WordEvent(cur, counter, range, FALSE, 0, res),
                    <<[missed |-> FALSE, counter |-> counter, micro_amps |-> res.adc]>>)

\* The state get_adc_result is called with: expected_counter already replaced.
Expecting(st, counter) == [st EXCEPT !.expected_counter = Some(NextExpected(counter))]

\* The loop body for a raw word with its fields extracted.
FeedFields(which, metadata, cur, adc, range, counter, logic) ==
    IF which = "src"
    THEN FeedSample(cur, counter, range, LogicPortPinsFromU8(logic % 256),
                    IsGap(cur.state.expected_counter, counter),
                    get_adc_result(metadata, Expecting(cur.state, counter), range, adc * 4))
    ELSE FeedSamplePpk2(cur, counter, range,
                        IsGapPpk2(cur.state.expected_counter, counter),
                        get_adc_result(metadata, Expecting(cur.state, counter), range, adc * 4))

\* A mutant of the range clamp: the raw range is used.
current_measurement_range_NoClamp(raw) == get_range(raw)

\* get_range(raw).min(4) as usize
current_measurement_range(raw) == Min(get_range(raw), 4)

\* The loop body for a raw word.
FeedRaw(which, metadata, cur, raw) ==
    FeedFields(which, metadata, cur, get_adc(raw), current_measurement_range(raw),
               get_counter(raw), get_logic(raw))

\* for chunk in chunks { .. }, from chunk k on
RECURSIVE FeedChunks(_, _, _, _, _)
FeedChunks(which, metadata, cur, chunks, k) ==
    IF k > Len(chunks) \/ cur.panic THEN cur
    ELSE \* the next word is fed to the value of the step before it
         CHOOSE out \in { FeedChunks(which, metadata, nxt, chunks, k + 1) :
                            nxt \in {FeedRaw(which, metadata, cur, from_le_bytes(chunks[k]))} } :
            TRUE

\* A mutant of the drain: the bytes of an unfinished word are dropped too.
FeedResult_DropTail(out, b, end) ==
    [state |-> out.state,
     buf |-> <<>>,
     deque |-> out.deque,
     samples_missed |-> out.samples_missed,
     events |-> out.events,
     panic |-> out.panic]

\* The result of feed_into from the result of its loop.
FeedResult(out, b, end) ==
    [state |-> out.state,
     buf |-> SubSeq(b, end + 1, Len(b)),
     deque |-> out.deque,
     samples_missed |-> out.samples_missed,
     events |-> out.events,
     panic |-> out.panic]

\* feed_into with self.buf already extended to b
FeedBuffered(which, metadata, st, b, end, deque) ==
    FeedResult(FeedChunks(which, metadata,
                          [state |-> st, deque |-> deque, samples_missed |-> 0,
                           events |-> <<>>, panic |-> FALSE],
                          ChunksExact4(SubSeq(b, 1, end)), 1),
               b, end)

\* feed_into of both crates (which = "src": src/src/measurement.rs, returning
\* samples_missed; which = "ppk2": src/ppk2/src/measurement.rs, returning
\* nothing).  The result is [state, buf, deque, samples_missed, events, panic].
feed_into(which, metadata, st, selfbuf, bytes, deque) ==
    IF Len(bytes) = 0
    THEN [state |-> st, buf |-> selfbuf, deque |-> deque, samples_missed |-> 0,
          events |-> <<>>, panic |-> FALSE]
    ELSE FeedBuffered(which, metadata, st, selfbuf \o bytes,
                      Len(selfbuf \o bytes) - (Len(selfbuf \o bytes) % 4), deque)

(***************************************************************************)
(* measurement.rs: MeasurementIterExt (the chunk reducer)                  *)
(***************************************************************************)
\* count - missed on usize.  A debug build panics when missed > count, a
\* release build wraps: the outcomes are both.  A wrapped difference d stands
\* for d + 2^64.
UsizeSub(a, b) ==
    IF a >= b
    THEN {[panic |-> FALSE, wrapped |-> FALSE, value |-> a - b]}
    ELSE {[panic |-> TRUE, wrapped |-> FALSE, value |-> 0],
          [panic |-> FALSE, wrapped |-> TRUE, value |-> a - b]}

\* the fold of combine: [count, sum, pin_high_count] after the first k items
RECURSIVE CombineFold(_, _)
CombineFold(items, k) ==
    IF k = 0
    THEN [count |-> 0, sum |-> 0, pin_high_count |-> [i \in 1..8 |-> 0]]
    ELSE CHOOSE out \in
            { [count |-> acc.count + 1,
               sum |-> acc.sum + items[k].micro_amps,
               pin_high_count |-> [i \in 1..8 |->
                    IF is_high(items[k].pins[i])
                    THEN acc.pin_high_count[i] + 1
                    ELSE acc.pin_high_count[i]]] :
              acc \in {CombineFold(items, k - 1)} } : TRUE

\* A mutant of the majority vote: half of the measurements are enough.
MajorityPins_AtLeastHalf(pin_high_count, count) ==
    [i \in 1..8 |-> LevelFromBool(pin_high_count[i] >= count \div 2)]

\* .filter(|(_, p)| *p > count / 2), then pins.into()
MajorityPins(pin_high_count, count) ==
    [i \in 1..8 |-> LevelFromBool(pin_high_count[i] > count \div 2)]

\* The end of combine, from the folded sums: the set of its outcomes.
CombineFinish(f, miss, items) ==
    IF f.count = 0
    THEN {[kind |-> "NoMatch", items |-> items]}
    ELSE { IF d.panic
           THEN [kind |-> "Panic", items |-> items]
           ELSE [kind |-> "Match",
                 \* sum / (count - missed) as f32, undivided
                 micro_amps |-> [sum |-> f.sum, den |-> d.value, wrapped |-> d.wrapped],
                 pins |-> MajorityPins(f.pin_high_count, f.count),
                 items |-> items] :
           d \in UsizeSub(f.count, miss) }

\* MeasurementIterExt::combine: the set of outcomes for the items the
\* iterator yields.  Each outcome carries the items it reduced.
combine(items, miss) == CombineFinish(CombineFold(items, Len(items)), miss, items)

\* The closure of the filter of combine_matching
PinsMatch(m, matching_pins) ==
    \A i \in 1..8 : matches(m.pins[i], matching_pins[i])

\* self.filter(..), as a sequence in the order of the iterator
RECURSIVE Filter(_, _, _)
Filter(chunk, matching_pins, k) ==
    IF k = 0 THEN <<>>
    ELSE IF PinsMatch(chunk[k], matching_pins)
         THEN Append(Filter(chunk, matching_pins, k - 1), chunk[k])
         ELSE Filter(chunk, matching_pins, k - 1)

\* A mutant of combine_matching: the missed count is not passed on.
combine_matching_NoMissed(chunk, miss, matching_pins) ==
    combine(Filter(chunk, matching_pins, Len(chunk)), 0)

\* MeasurementIterExt::combine_matching
combine_matching(chunk, miss, matching_pins) ==
    combine(Filter(chunk, matching_pins, Len(chunk)), miss)

(***************************************************************************)
(* The device: the sample words it puts on the wire                        *)
(***************************************************************************)
\* The little-endian bytes of a sample word (spec.md, raw sample word)
WordBytes(adc, range, counter, logic, bit17) ==
    LET lo == adc + range * Pow2(14) + bit17 * Pow2(17) + counter * Pow2(18)
    IN  <<lo % 256, (lo \div 256) % 256, lo \div 65536, logic>>

\* The adc, range and logic fields the device draws a word from.
AccVariants ==
    { [adc |-> 3, range |-> 0, logic |-> 0, bit17 |-> 0],
      [adc |-> 10, range |-> 4, logic |-> 1, bit17 |-> 0],
      [adc |-> 16383, range |-> 7, logic |-> 255, bit17 |-> 1] }

\* Samples lost between two words that arrive: none, one, or 62 (the word
\* that arrives then carries a counter below the expected one).
LostChoices == {0, 1, 62}

\* The idle state of the reducer's variables.
RedIdle == rin = <<>> /\ rout = <<>>

\* No send_command call in progress.
ScIdle == [pc |-> "idle", command |-> <<>>, response |-> <<>>, out |-> <<>>, wire |-> <<>>,
           block |-> <<>>, reads |-> 0, result |-> <<>>]

\* The idle state of the codec's variables.
CmdIdle == fin = <<>> /\ fout = <<>> /\ sc = ScIdle

\* LogicPortPins::default(): every pin Either
AllEither == [i \in 1..8 |-> "Either"]

NoHist == [has_read |-> FALSE, stop_sent |-> FALSE, reads_after_stop |-> 0,
           sends_after_stop |-> 0]

\* The pipeline before start_measuring_while_matches is called.
PipeIdle ==
    /\ fpc = "idle" /\ rpc = "unborn" /\ rres = "none"
    /\ spc = "unavailable" /\ sres = "none"
    /\ mutex = "free" /\ ready = FALSE /\ cleared = FALSE
    /\ sig = [queued |-> 0, tx |-> TRUE, rx |-> TRUE]
    /\ meas = [queue |-> <<>>, tx |-> TRUE, rx |-> TRUE]
    /\ outbox = None
    /\ written = <<>>
    /\ received = <<>>
    /\ disconnected = FALSE
    /\ hist = NoHist

(***************************************************************************)
(* SpecAcc: an accumulator fed by a device, one read at a time             *)
(***************************************************************************)
InitAcc ==
    /\ impl \in {"src", "ppk2"}
    /\ state = NewAccumulatorState
    /\ abuf = <<>>
    /\ measurement_buf = <<>>
    /\ missed = 0
    /\ pending = <<>>
    /\ nwords = 0
    /\ dev_counter = None
    /\ lost = 0
    /\ last = [events |-> <<>>, samples_missed |-> 0, calls |-> 0]
    /\ RedIdle
    /\ CmdIdle
    /\ params = [pins |-> AllEither, sps |-> 1]
    /\ PipeIdle

\* The device puts one more word on the wire: its fields drawn from variants,
\* its counter from first (the first word) or following the last word's after
\* l \in losts lost samples.
DevPut(variants, losts, first) ==
    /\ \E v \in variants :
         \E l \in IF IsSome(dev_counter) THEN losts ELSE {0} :
         \E c \in IF IsSome(dev_counter)
                  THEN {(Unwrap(dev_counter) + 1 + l) % 64}
                  ELSE first :
            /\ pending' = pending \o WordBytes(v.adc, v.range, c, v.logic, v.bit17)
            /\ dev_counter' = Some(c)
            /\ lost' = lost + l
    /\ nwords' = nwords + 1

DevSend ==
    /\ nwords < MaxWords
    /\ Len(pending) <= 4
    /\ DevPut(AccVariants, LostChoices, 0..63)
    /\ UNCHANGED <<impl, state, abuf, measurement_buf, missed, last, rin, rout>>
    /\ UNCHANGED <<pipeVars, cmdVars>>

\* The caller reads n bytes from the wire and feeds them to the accumulator:
\* missed += accumulator.feed_into(&buf[..n], &mut measurement_buf)
AccFeed ==
    \E n \in 1..Len(pending) :
        \E r \in {feed_into(impl, ModelMetadata, state, abuf,
                            SubSeq(pending, 1, n), measurement_buf)} :
            /\ ~r.panic
            /\ state' = r.state
            /\ abuf' = r.buf
            /\ measurement_buf' = r.deque
            /\ missed' = missed + r.samples_missed
            /\ pending' = SubSeq(pending, n + 1, Len(pending))
            /\ last' = [events |-> r.events, samples_missed |-> r.samples_missed,
                        calls |-> Min(last.calls + 1, 1)]
            /\ UNCHANGED <<impl, nwords, dev_counter, lost, rin, rout>>
            /\ UNCHANGED <<pipeVars, cmdVars>>

NextAcc == DevSend \/ AccFeed

SpecAcc == InitAcc /\ [][NextAcc]_vars

(***************************************************************************)
(* SpecFeed: a byte stream fed to an accumulator in every partition        *)
(***************************************************************************)
\* The number of words of the stream.
MaxFeedWords == 3

\* The counters the stream starts at, and the samples lost between two words.
FeedFirst == {0, 62, 63}
FeedLost == {0, 1}

\* A fresh accumulator; last keeps every word event, every byte fed so far
\* and whether a chunk was empty or ended inside a word.
InitFeed ==
    /\ impl \in {"src", "ppk2"}
    /\ state = NewAccumulatorState
    /\ abuf = <<>>
    /\ measurement_buf = <<>>
    /\ missed = 0
    /\ pending = <<>>
    /\ nwords = 0
    /\ dev_counter = None
    /\ lost = 0
    /\ last = [events |-> <<>>, samples_missed |-> 0, calls |-> 0, fed |-> <<>>,
               empty |-> FALSE, inside |-> FALSE]
    /\ RedIdle
    /\ CmdIdle
    /\ params = [pins |-> AllEither, sps |-> 1]
    /\ PipeIdle

FeedSend ==
    /\ nwords < MaxFeedWords
    /\ Len(pending) <= 4
    /\ DevPut(AccVariants, FeedLost, FeedFirst)
    /\ UNCHANGED <<impl, state, abuf, measurement_buf, missed, last, rin, rout>>
    /\ UNCHANGED <<pipeVars, cmdVars>>

\* missed += accumulator.feed_into(&buf[..n], &mut measurement_buf), for any
\* n the read may have returned, 0 included (feed_into returns at once).
FeedInto ==
    \E n \in 0..Len(pending) :
        \E r \in {feed_into(impl, ModelMetadata, state, abuf,
                            SubSeq(pending, 1, n), measurement_buf)} :
            /\ ~r.panic
            /\ state' = r.state
            /\ abuf' = r.buf
            /\ measurement_buf' = r.deque
            /\ missed' = missed + r.samples_missed
            /\ pending' = SubSeq(pending, n + 1, Len(pending))
            /\ last' = [events |-> last.events \o r.events,
                        samples_missed |-> r.samples_missed,
                        calls |-> Min(last.calls + 1, 1),
                        fed |-> last.fed \o SubSeq(pending, 1, n),
                        empty |-> (last.empty \/ n = 0),
                        inside |-> (last.inside \/ n % 4 /= 0)]
            /\ UNCHANGED <<impl, nwords, dev_counter, lost, rin, rout>>
            /\ UNCHANGED <<pipeVars, cmdVars>>

NextFeed == FeedSend \/ FeedInto

SpecFeed == InitFeed /\ [][NextFeed]_vars
(***************************************************************************)
(* SpecReduce: the chunk reducer applied to a chunk                        *)
(***************************************************************************)
\* longest chunk the reducer is given
MaxChunkLen == 5
\* largest missed count the reducer is given
MaxMissed == 2

\* The measurements a chunk is drawn from, as the decoder builds them from a
\* logic byte: pins 0, 1 and 7 vary.
ChunkMeasurements ==
    { [micro_amps |-> 1, pins |-> LogicPortPinsFromU8(0)],
      [micro_amps |-> 2, pins |-> LogicPortPinsFromU8(1)],
      [micro_amps |-> 4, pins |-> LogicPortPinsFromU8(131)] }

\* The patterns a caller asks for: pins 0 and 1 at any level, pin 7 Either or
\* High, the others Either.
Patterns ==
    { [AllEither EXCEPT ![1] = a, ![2] = b, ![8] = c] :
        a \in Level, b \in Level, c \in {"Either", "High"} }

Chunks == UNION { [1..n -> ChunkMeasurements] : n \in 0..MaxChunkLen }

\* The idle state of the accumulator's variables.
AccIdle ==
    /\ impl = "src"
    /\ state = NewAccumulatorState
    /\ abuf = <<>>
    /\ measurement_buf = <<>>
    /\ missed = 0
    /\ pending = <<>>
    /\ nwords = 0
    /\ dev_counter = None
    /\ lost = 0
    /\ last = [events |-> <<>>, samples_missed |-> 0, calls |-> 0]

InitReduce ==
    /\ AccIdle
    /\ params = [pins |-> AllEither, sps |-> 1]
    /\ PipeIdle
    /\ rin \in { <<[chunk |-> c, missed |-> m, pattern |-> p]>> :
                   c \in Chunks, m \in 0..MaxMissed, p \in Patterns }
    /\ rout = <<>>
    /\ CmdIdle

\* chunk.into_iter().combine_matching(missed, pattern)
Reduce ==
    /\ rin /= <<>>
    /\ rout = <<>>
    /\ \E o \in combine_matching(rin[1].chunk, rin[1].missed, rin[1].pattern) :
          rout' = <<o>>
    /\ UNCHANGED <<rin>>
    /\ UNCHANGED accVars
    /\ UNCHANGED <<pipeVars, cmdVars>>

NextReduce == Reduce

SpecReduce == InitReduce /\ [][NextReduce]_vars
(***************************************************************************)
(* SpecAdc: get_adc_result applied to one sample after another, from the   *)
(* state MeasurementAccumulator::new builds                                *)
(***************************************************************************)
\* samples get_adc_result is applied to
MaxSamples == 4

\* The ADC values of the samples (adc_val).
AdcValues == {100, 400}

InitAdc ==
    /\ AccIdle /\ RedIdle /\ PipeIdle /\ sc = ScIdle
    /\ params = [pins |-> AllEither, sps |-> 1]
    /\ fin = <<0>>
    /\ fout = <<>>

\* get_adc_result(&self.metadata, &mut self.state, range, adc_val).  fin counts
\* the calls; fout keeps the state before the call, the sample, its
\* calibrated value, what the call returned and whether it panicked (no
\* call follows a panic).
GetAdcResult ==
    /\ fin[1] < MaxSamples
    /\ fout /= <<>> => ~fout[1].panic
    /\ \E range \in 0..4, adc_val \in AdcValues :
       \E r \in {get_adc_result(ModelMetadata, state, range, adc_val)} :
          /\ state' = r.state
          /\ fout' = <<[before |-> state, range |-> range,
                        calibrated |-> Calibrate(ModelMetadata, range, adc_val),
                        adc |-> r.adc, fired |-> r.fired, panic |-> r.panic]>>
    /\ fin' = <<fin[1] + 1>>
    /\ UNCHANGED <<impl, abuf, measurement_buf, missed, pending, nwords, dev_counter, lost,
                   last, sc>>
    /\ UNCHANGED <<redVars, pipeVars>>

NextAdc == GetAdcResult

SpecAdc == InitAdc /\ [][NextAdc]_vars

(***************************************************************************)
(* Spec: the streaming pipeline, Ppk2::start_measuring_while_matches       *)
(* (src/ppk2/src/lib.rs), its reader thread, its stop closure, the device  *)
(* and the consumer of the sample channel                                  *)
(***************************************************************************)
SPS_MAX == 90000

\* sample words the device streams in a session
MaxPipeWords == 2

\* The fields of the words the device streams: pin 0 low or high.
PipeVariants ==
    { [adc |-> 3, range |-> 0, logic |-> 0, bit17 |-> 0],
      [adc |-> 5, range |-> 0, logic |-> 1, bit17 |-> 0] }

\* The arguments start is called with: a window of 2 samples or of 1, any
\* pins or pin 0 Low.
StartParams ==
    { [pins |-> p, sps |-> r] :
        p \in {AllEither, [AllEither EXCEPT ![1] = "Low"]},
        r \in {45000, 90000} }

\* Bytes left in the serial input buffer by an earlier exchange.
StaleInput == {<<>>, <<255>>}

Init ==
    /\ impl = "src"
    /\ state = NewAccumulatorState
    /\ abuf = <<>>
    /\ measurement_buf = <<>>
    /\ missed = 0
    /\ pending \in StaleInput
    /\ nwords = 0
    /\ dev_counter = None
    /\ lost = 0
    /\ last = [events |-> <<>>, samples_missed |-> 0, calls |-> 0]
    /\ RedIdle
    /\ CmdIdle
    /\ PipeIdle
    /\ params \in StartParams


(* ---------------- the foreground: start_measuring_while_matches -------- *)
\* self.port.try_clone()?, thread::spawn(..)
FgSpawn ==
    /\ fpc = "idle"
    /\ \/ fpc' = "spawned" /\ rpc' = "start" /\ UNCHANGED <<sig, meas>>
       \/ \* try_clone failed: nothing was spawned, the channels are dropped
          /\ fpc' = "failed" /\ rpc' = "unborn"
          /\ sig' = [sig EXCEPT !.tx = FALSE, !.rx = FALSE]
          /\ meas' = [meas EXCEPT !.tx = FALSE, !.rx = FALSE]
    /\ UNCHANGED <<accVars, redVars, cmdVars, params, rres, spc, sres, mutex, ready, cleared, outbox,
                   written, received, disconnected, hist>>

\* A mutant of the `?` of the clear: its error is passed over.
AfterClearError_GoOn == "cleared"

\* self.port.clear(Input)? failed: start returns the error
AfterClearError == "unwind"

\* self.port.clear(Input)?
FgClear ==
    /\ fpc = "spawned"
    /\ \/ fpc' = "cleared" /\ cleared' = TRUE /\ pending' = <<>>
       \/ fpc' = AfterClearError /\ UNCHANGED <<cleared, pending>>
    /\ UNCHANGED <<impl, state, abuf, measurement_buf, missed, nwords, dev_counter, lost,
                   last, rin, rout, params, rpc, rres, spc, sres, mutex, ready, sig, meas,
                   outbox, written, received, disconnected, hist, cmdVars>>

\* let mut ready = lock.lock().unwrap()
FgLock ==
    /\ fpc = "cleared"
    /\ mutex = "free"
    /\ mutex' = "fg"
    /\ fpc' = "locked"
    /\ UNCHANGED <<accVars, redVars, cmdVars, params, rpc, rres, spc, sres, ready, cleared, sig, meas,
                   outbox, written, received, disconnected, hist>>

\* A mutant of the rendezvous: the guard is dropped once ready is set.
FgReady_DropsGuard ==
    /\ fpc = "locked"
    /\ ready' = TRUE
    /\ mutex' = "free"
    /\ fpc' = "notified"
    /\ UNCHANGED <<accVars, redVars, cmdVars, params, rpc, rres, spc, sres, cleared, sig, meas,
                   outbox, written, received, disconnected, hist>>

\* *ready = true; cvar.notify_all()
FgReady ==
    /\ fpc = "locked"
    /\ ready' = TRUE
    /\ fpc' = "notified"
    /\ UNCHANGED <<accVars, redVars, cmdVars, params, rpc, rres, spc, sres, mutex, cleared, sig, meas,
                   outbox, written, received, disconnected, hist>>

\* self.send_command(Command::AverageStart)?: the write; the response is
\* complete with no byte read
FgAverageStart ==
    /\ fpc = "notified"
    /\ \/ fpc' = "started" /\ written' = Append(written, "AverageStart")
       \/ fpc' = "unwind_locked" /\ UNCHANGED written
    /\ UNCHANGED <<accVars, redVars, cmdVars, params, rpc, rres, spc, sres, mutex, ready, cleared, sig,
                   meas, outbox, received, disconnected, hist>>

\* Ok((meas_rx, stop)): the guard of ready is dropped on the way out
FgReturn ==
    /\ fpc = "started"
    /\ mutex' = "free"
    /\ fpc' = "returned"
    /\ spc' = "held"
    /\ UNCHANGED <<accVars, redVars, cmdVars, params, rpc, rres, sres, ready, cleared, sig, meas,
                   outbox, written, received, disconnected, hist>>

\* An error return: the locals are dropped in the reverse of their
\* declaration, the guard first, then sig_tx, then meas_rx.
FgUnwind ==
    /\ \/ fpc = "unwind_locked" /\ mutex' = "free" /\ fpc' = "unwind"
          /\ UNCHANGED <<sig, meas>>
       \/ fpc = "unwind" /\ sig' = [sig EXCEPT !.tx = FALSE] /\ fpc' = "unwind_rx"
          /\ UNCHANGED <<mutex, meas>>
       \/ fpc = "unwind_rx" /\ meas' = [meas EXCEPT !.rx = FALSE] /\ fpc' = "failed"
          /\ UNCHANGED <<mutex, sig>>
    /\ UNCHANGED <<accVars, redVars, cmdVars, params, rpc, rres, spc, sres, ready, cleared, outbox,
                   written, received, disconnected, hist>>

Foreground == FgSpawn \/ FgClear \/ FgLock \/ FgReady \/ FgAverageStart \/ FgReturn \/ FgUnwind

(* ---------------- the reader thread ------------------------------------ *)
\* A mutant of the closure of wait_while: the reader never waits.
WaitPredicate_NeverWait(r) == FALSE

\* The closure of cvar.wait_while: |ready| !*ready
WaitPredicate(r) == ~r

\* lock.lock().unwrap(), the argument of wait_while
RdLock ==
    /\ rpc = "start"
    /\ mutex = "free"
    /\ mutex' = "reader"
    /\ rpc' = "check"
    /\ UNCHANGED <<accVars, redVars, cmdVars, params, fpc, rres, spc, sres, ready, cleared, sig, meas,
                   outbox, written, received, disconnected, hist>>

\* cvar.wait_while(guard, |ready| !*ready): with the mutex held the predicate
\* is evaluated; the reader goes on holding the guard, or releases the mutex
\* and waits.  A waiting reader wakes (notified or not), takes the mutex again
\* and evaluates the predicate again.
RdWait ==
    /\ \/ /\ rpc = "check"
          /\ IF WaitPredicate(ready)
             THEN rpc' = "waiting" /\ mutex' = "free"
             ELSE rpc' = "poll" /\ UNCHANGED mutex
       \/ /\ rpc = "waiting"
          /\ mutex = "free"
          /\ mutex' = "reader"
          /\ rpc' = "check"
    /\ UNCHANGED <<accVars, redVars, cmdVars, params, fpc, rres, spc, sres, ready, cleared, sig, meas,
                   outbox, written, received, disconnected, hist>>

\* A mutant of the stop poll: the signal is taken and the loop goes on.
AfterSignal_GoOn == [rpc |-> "read", rres |-> "none", mutex |-> "reader"]

\* Ok(_) => return Ok(()): the closure returns and drops the guard
AfterSignal == [rpc |-> "ret", rres |-> "Ok", mutex |-> "free"]

\* match sig_rx.try_recv() { Ok(_) => return Ok(()), Err(Empty) => {},
\*                           Err(e) => return Err(e.into()) }
RdPoll ==
    /\ rpc = "poll"
    /\ IF sig.queued > 0
       THEN /\ sig' = [sig EXCEPT !.queued = @ - 1]
            /\ rpc' = AfterSignal.rpc /\ rres' = AfterSignal.rres
            /\ mutex' = AfterSignal.mutex
       ELSE IF sig.tx
       THEN rpc' = "read" /\ UNCHANGED <<sig, rres, mutex>>
       ELSE rpc' = "ret" /\ rres' = "ErrWorkerSignal" /\ mutex' = "free" /\ UNCHANGED sig
    /\ UNCHANGED <<accVars, redVars, cmdVars, params, fpc, spc, sres, ready, cleared, meas, outbox,
                   written, received, disconnected, hist>>

Bump(n) == IF n < 2 THEN n + 1 ELSE n

\* The window: SPS_MAX / sps
Window(sps) == SPS_MAX \div sps

\* let n = port.read(&mut buf)? returned Ok(n) with bytes;
\* missed += accumulator.feed_into(&buf[..n], &mut measurement_buf);
\* if len >= SPS_MAX / sps { let measurement = measurement_buf.drain(..)
\*                               .combine_matching(missed, pins); .. }
\* The division panics when sps is 0.
RdFeed(bytes) ==
    \E r \in {feed_into(impl, ModelMetadata, state, abuf, bytes, measurement_buf)} :
        /\ state' = r.state
        /\ abuf' = r.buf
        /\ missed' = missed + r.samples_missed
        /\ IF r.panic \/ params.sps = 0
           THEN /\ rpc' = "ret" /\ rres' = "Panic" /\ mutex' = "free"
                /\ measurement_buf' = r.deque
                /\ UNCHANGED outbox
           ELSE IF Len(r.deque) >= Window(params.sps)
           THEN /\ measurement_buf' = <<>>
                /\ \E o \in combine_matching(r.deque, missed + r.samples_missed, params.pins) :
                      IF o.kind = "Panic"
                      THEN rpc' = "ret" /\ rres' = "Panic" /\ mutex' = "free"
                           /\ UNCHANGED outbox
                      ELSE rpc' = "send" /\ outbox' = Some(o) /\ UNCHANGED <<rres, mutex>>
           ELSE /\ measurement_buf' = r.deque
                /\ rpc' = "poll"
                /\ UNCHANGED <<outbox, rres, mutex>>

\* A mutant of the `?` of the read: after an error the read is tried again.
AfterReadError_Retry == [rpc |-> "read", mutex |-> "reader"]

\* port.read(&mut buf)? failed: the closure returns the error and drops the
\* guard
AfterReadError == [rpc |-> "ret", mutex |-> "free"]

\* port.read(&mut buf)? and the rest of the iteration up to the send.  The
\* read returns some of the bytes the device has sent, or fails (an I/O error,
\* or the 500 ms timeout), which ends the reader.
RdRead ==
    /\ rpc = "read"
    /\ hist' = [hist EXCEPT !.has_read = TRUE,
                            !.reads_after_stop = IF hist.stop_sent THEN Bump(@) ELSE @]
    /\ \/ \E n \in 0..Len(pending) :
             /\ pending' = SubSeq(pending, n + 1, Len(pending))
             /\ RdFeed(SubSeq(pending, 1, n))
       \/ /\ rpc' = AfterReadError.rpc /\ rres' = "ErrIo" /\ mutex' = AfterReadError.mutex
          /\ UNCHANGED <<state, abuf, measurement_buf, missed, pending, outbox>>
    /\ UNCHANGED <<impl, nwords, dev_counter, lost, last, redVars, cmdVars, params, fpc, spc, sres,
                   ready, cleared, sig, meas, written, received, disconnected>>

\* A mutant of the loop: after a send the next read follows at once.
AfterSend_Read == "read"

\* The end of the loop body: the next iteration starts with the stop poll.
AfterSend == "poll"

\* A mutant of the `?` of the send: its error is passed over.
AfterSendError_GoOn == [rpc |-> "poll", rres |-> "none", mutex |-> "reader"]

\* meas_tx.send(measurement)? failed: the closure returns the error and
\* drops the guard
AfterSendError == [rpc |-> "ret", rres |-> "ErrSendMeasurement", mutex |-> "free"]

\* meas_tx.send(measurement)?; missed = 0: the channel is mpsc::channel(), a
\* send never blocks and fails only when the receiver is gone
RdSend ==
    /\ rpc = "send"
    /\ outbox' = None
    /\ IF meas.rx
       THEN /\ meas' = [meas EXCEPT !.queue = Append(@, Unwrap(outbox))]
            /\ missed' = 0
            /\ rpc' = AfterSend
            /\ hist' = [hist EXCEPT !.sends_after_stop = IF hist.stop_sent THEN Bump(@) ELSE @]
            /\ UNCHANGED <<rres, mutex>>
       ELSE /\ rpc' = AfterSendError.rpc /\ rres' = AfterSendError.rres
            /\ mutex' = AfterSendError.mutex
            /\ UNCHANGED <<meas, missed, hist>>
    /\ UNCHANGED <<impl, state, abuf, measurement_buf, pending, nwords, dev_counter, lost, last,
                   redVars, cmdVars, params, fpc, spc, sres, ready, cleared, sig, written, received,
                   disconnected>>

\* The thread's closure ends: what it captured (sig_rx, meas_tx, the port) is
\* dropped and the thread can be joined.
RdExit ==
    /\ rpc = "ret"
    /\ rpc' = "done"
    /\ sig' = [sig EXCEPT !.rx = FALSE]
    /\ meas' = [meas EXCEPT !.tx = FALSE]
    /\ UNCHANGED <<accVars, redVars, cmdVars, params, fpc, rres, spc, sres, mutex, ready, cleared,
                   outbox, written, received, disconnected, hist>>

Reader == RdLock \/ RdWait \/ RdPoll \/ RdRead \/ RdSend \/ RdExit

(* ---------------- the stop closure ------------------------------------- *)
\* sig_tx.send(())?
StopSend ==
    /\ spc = "held"
    /\ IF sig.rx
       THEN /\ sig' = [sig EXCEPT !.queued = @ + 1]
            /\ spc' = "joining"
            /\ hist' = [hist EXCEPT !.stop_sent = TRUE]
            /\ UNCHANGED sres
       ELSE /\ sig' = [sig EXCEPT !.tx = FALSE]
            /\ spc' = "returned" /\ sres' = "ErrSendStopSignal"
            /\ UNCHANGED hist
    /\ UNCHANGED <<accVars, redVars, cmdVars, params, fpc, rpc, rres, mutex, ready, cleared, meas,
                   outbox, written, received, disconnected>>

\* A mutant of the join: the closure goes on without waiting for the reader.
StopJoin_Detached ==
    /\ spc = "joining"
    /\ spc' = "stopping"
    /\ UNCHANGED <<sres, sig>>
    /\ UNCHANGED <<accVars, redVars, cmdVars, params, fpc, rpc, rres, mutex, ready, cleared, meas,
                   outbox, written, received, disconnected, hist>>

\* t.join().expect("Data receive thread panicked")?
StopJoin ==
    /\ spc = "joining"
    /\ rpc = "done"
    /\ IF rres = "Ok"
       THEN spc' = "stopping" /\ UNCHANGED <<sres, sig>>
       ELSE /\ spc' = "returned"
            /\ sres' = IF rres = "Panic" THEN "Panic" ELSE rres
            /\ sig' = [sig EXCEPT !.tx = FALSE]
    /\ UNCHANGED <<accVars, redVars, cmdVars, params, fpc, rpc, rres, mutex, ready, cleared, meas,
                   outbox, written, received, disconnected, hist>>

\* self.send_command(Command::AverageStop)?; Ok(self)
StopAverageStop ==
    /\ spc = "stopping"
    /\ spc' = "returned"
    /\ sig' = [sig EXCEPT !.tx = FALSE]
    /\ \/ written' = Append(written, "AverageStop") /\ sres' = "Ok"
       \/ UNCHANGED written /\ sres' = "ErrWrite"
    /\ UNCHANGED <<accVars, redVars, cmdVars, params, fpc, rpc, rres, mutex, ready, cleared, meas,
                   outbox, received, disconnected, hist>>

\* The caller lets go of the closure without calling it.
StopDrop ==
    /\ spc = "held"
    /\ spc' = "dropped"
    /\ sig' = [sig EXCEPT !.tx = FALSE]
    /\ UNCHANGED <<accVars, redVars, cmdVars, params, fpc, rpc, rres, sres, mutex, ready, cleared, meas,
                   outbox, written, received, disconnected, hist>>

Stop == StopSend \/ StopJoin \/ StopAverageStop \/ StopDrop

(* ---------------- the consumer of the sample channel ------------------- *)
\* A mutant of the channel: the receiver is handed the newest message.
Dequeue_Newest(q) == [item |-> q[Len(q)], rest |-> SubSeq(q, 1, Len(q) - 1)]

\* mpsc::channel(): the receiver is handed the oldest message
Dequeue(q) == [item |-> Head(q), rest |-> Tail(q)]

\* meas_rx.recv(): a chunk, or Disconnected once the queue is empty and the
\* sender is gone
ConsRecv ==
    /\ fpc = "returned"
    /\ meas.rx
    /\ ~disconnected
    /\ IF meas.queue /= <<>>
       THEN /\ received' = Append(received, Dequeue(meas.queue).item)
            /\ meas' = [meas EXCEPT !.queue = Dequeue(@).rest]
            /\ UNCHANGED disconnected
       ELSE /\ ~meas.tx
            /\ disconnected' = TRUE
            /\ UNCHANGED <<received, meas>>
    /\ UNCHANGED <<accVars, redVars, cmdVars, params, fpc, rpc, rres, spc, sres, mutex, ready, cleared,
                   sig, outbox, written, hist>>

\* The consumer drops the receiver.
ConsDrop ==
    /\ fpc = "returned"
    /\ meas.rx
    /\ meas' = [meas EXCEPT !.rx = FALSE]
    /\ UNCHANGED <<accVars, redVars, cmdVars, params, fpc, rpc, rres, spc, sres, mutex, ready, cleared,
                   sig, outbox, written, received, disconnected, hist>>

Consumer == ConsRecv \/ ConsDrop

(* ---------------- the device ------------------------------------------- *)
\* Between AverageStart and AverageStop the device streams sample words.
DevStream ==
    /\ Len(written) >= 1
    /\ written[Len(written)] = "AverageStart"
    /\ nwords < MaxPipeWords
    /\ DevPut(PipeVariants, {0, 1}, {63})
    /\ UNCHANGED <<impl, state, abuf, measurement_buf, missed, last, redVars>>
    /\ UNCHANGED <<pipeVars, cmdVars>>

Next == Foreground \/ Reader \/ Stop \/ Consumer \/ DevStream

Spec == Init /\ [][Next]_vars

\* The threads are scheduled: the reader and a receiving consumer keep taking
\* their steps.
FairSpec == Spec /\ WF_vars(Reader) /\ WF_vars(ConsRecv)

(***************************************************************************)
(* SpecSps: sessions started with any sps                                  *)
(***************************************************************************)
\* sps: usize is passed to the reader as the caller gave it: 0, SPS_MAX, and
\* twice SPS_MAX.
SpsParams == { [pins |-> AllEither, sps |-> r] : r \in {0, SPS_MAX, 2 * SPS_MAX} }

InitSps ==
    /\ impl = "src"
    /\ state = NewAccumulatorState
    /\ abuf = <<>>
    /\ measurement_buf = <<>>
    /\ missed = 0
    /\ pending \in StaleInput
    /\ nwords = 0
    /\ dev_counter = None
    /\ lost = 0
    /\ last = [events |-> <<>>, samples_missed |-> 0, calls |-> 0]
    /\ RedIdle
    /\ CmdIdle
    /\ PipeIdle
    /\ params \in SpsParams

\* chunks the reader sends in a session
MaxSpsChunks == 3

\* The reader, until it has sent MaxSpsChunks chunks: with a window of 0
\* every read is followed by a send.
SpsReader ==
    /\ Len(received) + Len(meas.queue) < MaxSpsChunks
    /\ Reader

NextSps == Foreground \/ SpsReader \/ Stop \/ Consumer \/ DevStream

SpecSps == InitSps /\ [][NextSps]_vars

(***************************************************************************)
(* SpecWindow: a session that has started, streaming more samples than a   *)
(* window holds                                                            *)
(***************************************************************************)
\* sample words the device streams in a long session
MaxWindowWords == 5

\* The arguments of a long session: a window of 3 samples or of 2, any pins
\* or pin 0 Low; a read returns at most 2 words, as a read of 1024 bytes
\* returns fewer samples than a window of 900.
WindowParams ==
    { [pins |-> p, sps |-> r] :
        p \in {AllEither, [AllEither EXCEPT ![1] = "Low"]},
        r \in {30000, 45000} }

\* start_measuring_while_matches has returned Ok: AverageStart is written and
\* the reader has come out of wait_while, holding its guard.
InitWindow ==
    /\ AccIdle /\ RedIdle /\ CmdIdle
    /\ params \in WindowParams
    /\ fpc = "returned" /\ rpc = "poll" /\ rres = "none"
    /\ spc = "held" /\ sres = "none"
    /\ mutex = "reader" /\ ready = TRUE /\ cleared = TRUE
    /\ sig = [queued |-> 0, tx |-> TRUE, rx |-> TRUE]
    /\ meas = [queue |-> <<>>, tx |-> TRUE, rx |-> TRUE]
    /\ outbox = None
    /\ written = <<"AverageStart">>
    /\ received = <<>>
    /\ disconnected = FALSE
    /\ hist = NoHist

\* The device streams sample words, at most two of them unread.
DevWindow ==
    /\ written[Len(written)] = "AverageStart"
    /\ nwords < MaxWindowWords
    /\ Len(pending) <= 4
    /\ DevPut(PipeVariants, {0, 1}, {63})
    /\ UNCHANGED <<impl, state, abuf, measurement_buf, missed, last, redVars>>
    /\ UNCHANGED <<pipeVars, cmdVars>>

NextWindow == RdPoll \/ RdRead \/ RdSend \/ RdExit \/ ConsRecv \/ DevWindow

SpecWindow == InitWindow /\ [][NextWindow]_vars

(***************************************************************************)
(* The command codec (src/src/cmd.rs) and SourceVoltage (src/src/types.rs) *)
(***************************************************************************)
\* The variants of Command, in the order of the enum.
CommandTags ==
    { "NoOp", "TriggerSet", "AvgNumSet", "TriggerWindowSet", "TriggerIntervalSet",
      "TriggerSingleSet", "AverageStart", "AverageStop", "RangeSet", "LcdSet", "TriggerStop",
      "DeviceRunningSet", "RegulatorSet", "SwitchPointDown", "SwitchPointUp",
      "TriggerExtToggle", "SetPowerMode", "ResUserSet", "SpikeFilteringOn",
      "SpikeFilteringOff", "GetMetaData", "Reset", "SetUserGains" }

\* A Command: its variant and the bytes of its operand (<<>> when it has none).
Cmd(tag, arg) == [tag |-> tag, arg |-> arg]

VDD_MIN_MV == 800
VDD_MAX_MV == 5000
OFFSET == 32

\* A mutant of clamp: the value is passed through.
clamp_None(v, lo, hi) == v

\* u16::clamp
clamp(v, lo, hi) == IF v < lo THEN lo ELSE IF v > hi THEN hi ELSE v

\* SourceVoltage::from_millivolts(mv), in u16 and u8 arithmetic: raw is the
\* pair of bytes, overflow tells that a subtraction, an addition or a cast
\* left the range of its type (a panic in a debug build, a wrapped value in a
\* release build).
FromMillivoltsRaw(mv) ==
    LET diff_to_baseline == (mv - VDD_MIN_MV + OFFSET) % 65536
        ratio == diff_to_baseline \div 256
        remainder == diff_to_baseline % 256
    IN  [raw |-> <<(ratio + 3) % 256, remainder>>,
         overflow |-> mv < VDD_MIN_MV \/ mv - VDD_MIN_MV + OFFSET > 65535 \/ ratio + 3 > 255]

from_millivolts(mv) == FromMillivoltsRaw(clamp(mv, VDD_MIN_MV, VDD_MAX_MV))

\* Command::expected_response_len
expected_response_len(self) == IF self.tag = "GetMetaData" THEN 512 ELSE 0

\* A mutant of ends_with: the needle is looked for at the start.
ends_with_AtStart(s, needle) ==
    /\ Len(needle) <= Len(s)
    /\ SubSeq(s, 1, Len(needle)) = needle

\* <[u8]>::ends_with
ends_with(s, needle) ==
    /\ Len(needle) <= Len(s)
    /\ SubSeq(s, Len(s) - Len(needle) + 1, Len(s)) = needle

\* b"END\n"
END_NL == <<69, 78, 68, 10>>

\* Command::response_complete
response_complete(self, response) ==
    IF self.tag = "GetMetaData"
    THEN ends_with(response, END_NL)
    ELSE expected_response_len(self) >= Len(response)

\* The first arm of CommandBytes::next for each variant: (X, 0) => Some(opcode)
Opcode ==
    [NoOp |-> 0, TriggerSet |-> 1, AvgNumSet |-> 2, TriggerWindowSet |-> 3,
     TriggerIntervalSet |-> 4, TriggerSingleSet |-> 5, AverageStart |-> 6,
     AverageStop |-> 7, RangeSet |-> 8, LcdSet |-> 9, TriggerStop |-> 10,
     DeviceRunningSet |-> 12, RegulatorSet |-> 13, SwitchPointDown |-> 14,
     SwitchPointUp |-> 15, TriggerExtToggle |-> 16, SetPowerMode |-> 17,
     ResUserSet |-> 18, SpikeFilteringOn |-> 21, SpikeFilteringOff |-> 22,
     GetMetaData |-> 25, Reset |-> 32, SetUserGains |-> 37]

\* A mutant of the match in next: only the opcode is yielded.
CommandBytesItem_OpcodeOnly(cmd, index) ==
    IF index = 0 THEN Some(Opcode[cmd.tag]) ELSE None

\* The match of CommandBytes::next on (self.cmd, self.index)
CommandBytesItem(cmd, index) ==
    IF index = 0 THEN Some(Opcode[cmd.tag])
    ELSE IF cmd.tag = "DeviceRunningSet" /\ index = 1 THEN Some(cmd.arg[1])
    ELSE IF cmd.tag = "RegulatorSet" /\ index \in 1..2 THEN Some(cmd.arg[index])
    ELSE IF cmd.tag = "SetPowerMode" /\ index = 1 THEN Some(cmd.arg[1])
    ELSE None

\* CommandBytes::next: the item, and the iterator with self.index += 1
next(it) ==
    [item |-> CommandBytesItem(it.cmd, it.index),
     it |-> [it EXCEPT !.index = @ + 1]]

\* Vec::from_iter(command.bytes()): the items up to the first None
RECURSIVE Collect(_)
Collect(it) ==
    IF next(it).item = None THEN <<>>
    ELSE <<Unwrap(next(it).item)>> \o Collect(next(it).it)

\* Command::bytes
bytes(cmd) == [cmd |-> cmd, index |-> 0]

(* ---------------- SpecComplete: response_complete on a buffer ---------- *)
\* longest response buffer response_complete is given
MaxResponseLen == 5

\* The bytes the buffers are made of: E, N, D and newline.
ResponseBytes == {69, 78, 68, 10}

Buffers == UNION { [1..n -> ResponseBytes] : n \in 0..MaxResponseLen }

\* One command of each variant.
OneOfEach ==
    { Cmd(t, IF t = "RegulatorSet" THEN <<12, 228>>
             ELSE IF t \in {"DeviceRunningSet", "SetPowerMode"} THEN <<1>> ELSE <<>>) :
        t \in CommandTags }

InitComplete ==
    /\ AccIdle /\ RedIdle /\ PipeIdle
    /\ params = [pins |-> AllEither, sps |-> 1]
    /\ fin \in { <<[cmd |-> c, response |-> b]>> : c \in OneOfEach, b \in Buffers }
    /\ fout = <<>>
    /\ sc = ScIdle

\* command.response_complete(&response)
ResponseComplete ==
    /\ fout = <<>>
    /\ fout' = <<response_complete(fin[1].cmd, fin[1].response)>>
    /\ UNCHANGED <<fin, sc>>
    /\ UNCHANGED <<accVars, redVars, pipeVars>>

NextComplete == ResponseComplete

SpecComplete == InitComplete /\ [][NextComplete]_vars

(* ---------------- SpecBytes: the iterator Command::bytes() ------------- *)
\* calls of next on one iterator
MaxNextCalls == 5

\* The voltages RegulatorSet is built from, in millivolts.
SampleMillivolts == {0, 799, 800, 3300, 5000, 5001, 65535}

\* Every variant, with the operands it can carry.
AllCommands ==
    { Cmd(t, <<>>) : t \in CommandTags \ {"RegulatorSet", "DeviceRunningSet", "SetPowerMode"} }
    \cup { Cmd("DeviceRunningSet", <<p>>) : p \in {0, 1} }
    \cup { Cmd("SetPowerMode", <<m>>) : m \in {1, 2} }
    \cup { Cmd("RegulatorSet", from_millivolts(mv).raw) : mv \in SampleMillivolts }

InitBytes ==
    /\ AccIdle /\ RedIdle /\ PipeIdle
    /\ params = [pins |-> AllEither, sps |-> 1]
    /\ fin \in { <<bytes(c)>> : c \in AllCommands }
    /\ fout = <<<<>>>>
    /\ sc = ScIdle

\* One call of next on the iterator: fin is the iterator, fout the items it
\* has returned so far.
CommandBytesNext ==
    /\ fin[1].index < MaxNextCalls
    /\ fout' = <<Append(fout[1], next(fin[1]).item)>>
    /\ fin' = <<next(fin[1]).it>>
    /\ UNCHANGED sc
    /\ UNCHANGED <<accVars, redVars, pipeVars>>

NextBytes == CommandBytesNext

SpecBytes == InitBytes /\ [][NextBytes]_vars

(* ---------------- SpecVoltage: SourceVoltage::from_millivolts ---------- *)
U16_MAX == 65535

InitVoltage ==
    /\ AccIdle /\ RedIdle /\ PipeIdle
    /\ params = [pins |-> AllEither, sps |-> 1]
    /\ fin \in { <<mv>> : mv \in 0..U16_MAX }
    /\ fout = <<>>
    /\ sc = ScIdle

\* SourceVoltage::from_millivolts(mv)
FromMillivolts ==
    /\ fout = <<>>
    /\ fout' = <<from_millivolts(fin[1])>>
    /\ UNCHANGED <<fin, sc>>
    /\ UNCHANGED <<accVars, redVars, pipeVars>>

NextVoltage == FromMillivolts

SpecVoltage == InitVoltage /\ [][NextVoltage]_vars

(***************************************************************************)
(* SpecCmd: Ppk2::send_command (src/ppk2/src/lib.rs, the same code in      *)
(* src/src/lib.rs) talking to a device that answers with a block of bytes  *)
(***************************************************************************)
\* parts a device's answer is made of
MaxBlockParts == 3

\* let mut buf = [0u8; 128]
READ_BUF_LEN == 128

\* The pieces the answers are made of: END newline, and pieces of it.
BlockParts == { <<69, 78, 68, 10>>, <<69>>, <<10>>, <<69, 78>>, <<68, 10>> }

RECURSIVE Concat(_)
Concat(parts) == IF parts = <<>> THEN <<>> ELSE Head(parts) \o Concat(Tail(parts))

\* What the device answers to GetMetaData.
Blocks == { Concat(ps) : ps \in UNION { [1..n -> BlockParts] : n \in 0..MaxBlockParts } }

\* The calls: GetMetaData answered by a block, and commands the device does
\* not answer.
Calls ==
    { [command |-> Cmd("GetMetaData", <<>>), block |-> b] : b \in Blocks }
    \cup { [command |-> c, block |-> <<>>] :
             c \in { Cmd("AverageStart", <<>>), Cmd("AverageStop", <<>>),
                     Cmd("SetPowerMode", <<2>>), Cmd("RegulatorSet", <<12, 228>>) } }

InitCmd ==
    /\ AccIdle /\ RedIdle /\ PipeIdle
    /\ params = [pins |-> AllEither, sps |-> 1]
    /\ fin = <<>> /\ fout = <<>>
    /\ \E c \in Calls :
          sc = [ScIdle EXCEPT !.pc = "write", !.command = c.command, !.block = c.block]

ScOk(v) == <<[kind |-> "Ok", value |-> v, cause |-> "none"]>>
\* Err(Error::Io(e)): e from the write, from a read, or a read's timeout
ScErr(cause) == <<[kind |-> "Io", value |-> <<>>, cause |-> cause]>>

\* self.port.write_all(&Vec::from_iter(command.bytes()))?: the bytes reach
\* the device, which puts its answer on the wire, or the write fails
ScWrite ==
    /\ sc.pc = "write"
    /\ \/ sc' = [sc EXCEPT !.pc = "loop", !.out = Collect(bytes(sc.command)),
                           !.wire = sc.block]
       \/ sc' = [sc EXCEPT !.pc = "done", !.result = ScErr("write")]
    /\ UNCHANGED <<fin, fout>>
    /\ UNCHANGED <<accVars, redVars, pipeVars>>

\* while !command.response_complete(&response) { .. } Ok(response)
ScLoop ==
    /\ sc.pc = "loop"
    /\ IF response_complete(sc.command, sc.response)
       THEN sc' = [sc EXCEPT !.pc = "done", !.result = ScOk(sc.response)]
       ELSE sc' = [sc EXCEPT !.pc = "read"]
    /\ UNCHANGED <<fin, fout>>
    /\ UNCHANGED <<accVars, redVars, pipeVars>>

\* A mutant of extend_from_slice: the response is replaced by the bytes read.
ExtendFromSlice_Replace(response, read) == read

\* response.extend_from_slice(&buf[..n])
ExtendFromSlice(response, read) == response \o read

\* let n = self.port.read(&mut buf)?: 1 to 128 of the bytes on the wire, or
\* an error: the 500 ms timeout when the wire is empty, or an I/O error.  The
\* `?` returns either from send_command.
ScRead ==
    /\ sc.pc = "read"
    /\ \/ \E n \in 1..Min(READ_BUF_LEN, Len(sc.wire)) :
             sc' = [sc EXCEPT !.pc = "loop", !.reads = @ + 1,
                              !.response = ExtendFromSlice(@, SubSeq(sc.wire, 1, n)),
                              !.wire = SubSeq(@, n + 1, Len(@))]
       \/ /\ sc.wire = <<>>
          /\ sc' = [sc EXCEPT !.pc = "done", !.result = ScErr("TimedOut")]
       \/ sc' = [sc EXCEPT !.pc = "done", !.result = ScErr("read")]
    /\ UNCHANGED <<fin, fout>>
    /\ UNCHANGED <<accVars, redVars, pipeVars>>

NextCmd == ScWrite \/ ScLoop \/ ScRead

SpecCmd == InitCmd /\ [][NextCmd]_vars

\* send_command runs on: each of its steps is eventually taken.
FairCmd == SpecCmd /\ WF_vars(NextCmd)

(***************************************************************************)
(* The metadata parser: Metadata::from_bytes (src/src/types.rs)            *)
(*                                                                         *)
(* Text is held as its bytes.  A parsed f32 is held as [m, s], the decimal *)
(* m / 10^s that was read.                                                 *)
(***************************************************************************)
F(m, s) == [m |-> m, s |-> s]

\* Modifiers::default() and Metadata::default()
MetadataDefault ==
    [modifiers |->
        [r  |-> <<F(103164, 2), F(10165, 2), F(1015, 2), F(94, 2), F(43, 3)>>,
         gs |-> [i \in 1..5 |-> F(1, 0)],
         gi |-> [i \in 1..5 |-> F(1, 0)],
         o  |-> [i \in 1..5 |-> F(0, 0)],
         s  |-> [i \in 1..5 |-> F(0, 0)],
         i  |-> [i \in 1..5 |-> F(0, 0)],
         ug |-> [i \in 1..5 |-> F(1, 0)]],
     calibrated |-> FALSE, vdd |-> 0, hw |-> 0, mode |-> "Source", ia |-> 0]

\* std::str::from_utf8(bytes) succeeds: the texts of the model are ASCII, and
\* a byte 0x80..0xFF in them is one that no UTF-8 text holds (0xFF).
Utf8Valid(b) == \A k \in 1..Len(b) : b[k] < 128

\* The index of the first byte c of s from k on, 0 when there is none.
RECURSIVE FindByte(_, _, _)
FindByte(s, c, k) ==
    IF k > Len(s) THEN 0 ELSE IF s[k] = c THEN k ELSE FindByte(s, c, k + 1)

\* A line ending \r\n leaves no \r in the line.
StripCr(line) ==
    IF line /= <<>> /\ line[Len(line)] = 13 THEN SubSeq(line, 1, Len(line) - 1) ELSE line

RECURSIVE Lines(_)
RECURSIVE LinesAt(_, _)
\* The lines of s when its first newline is at n (0: there is none).
LinesAt(s, n) ==
    IF n = 0 THEN <<s>>
    ELSE <<StripCr(SubSeq(s, 1, n - 1))>> \o Lines(SubSeq(s, n + 1, Len(s)))

\* str::lines
Lines(s) ==
    IF s = <<>> THEN <<>>
    ELSE LinesAt(s, FindByte(s, 10, 1))

\* The index of the first ": " of line from k on, 0 when there is none.
RECURSIVE FindSeparator(_, _)
FindSeparator(line, k) ==
    IF k + 1 > Len(line) THEN 0
    ELSE IF line[k] = 58 /\ line[k + 1] = 32 THEN k
    ELSE FindSeparator(line, k + 1)

SplitAt(line, k) ==
    IF k = 0 THEN None
    ELSE Some([key |-> SubSeq(line, 1, k - 1), value |-> SubSeq(line, k + 2, Len(line))])

\* line.split_once(": ")
split_once(line) == SplitAt(line, FindSeparator(line, 1))

IsDigit(c) == c \in 48..57

\* The number a sequence of decimal digits writes.
RECURSIVE DecimalValue(_)
DecimalValue(ds) ==
    IF ds = <<>> THEN 0
    ELSE 10 * DecimalValue(SubSeq(ds, 1, Len(ds) - 1)) + (ds[Len(ds)] - 48)

\* longest run of digits the parsers of the model read
MaxDigits == 12

\* The digits after an optional sign; signs is the set of signs accepted.
Unsigned(v, signs) == IF v /= <<>> /\ v[1] \in signs THEN Tail(v) ELSE v

\* str::parse::<u8 / u16 / u32>(): an optional +, then digits only, the value
\* at most max.  None is the Err.
ParseDigits(ds, max) ==
    IF ds = <<>> \/ Len(ds) > MaxDigits \/ \E k \in 1..Len(ds) : ~IsDigit(ds[k])
    THEN None
    ELSE IF DecimalValue(ds) > max THEN None ELSE Some(DecimalValue(ds))

ParseUnsigned(v, max) == ParseDigits(Unsigned(v, {43}), max)

\* str::parse::<f32>() on the texts of the model: an optional sign, then
\* digits with at most one point and at least one digit.  (Exponents, inf and
\* nan are texts the model does not draw.)
ParseDecimal(ds, neg) ==
    IF \/ Len(ds) > MaxDigits
       \/ \E k \in 1..Len(ds) : ~IsDigit(ds[k]) /\ ds[k] /= 46
       \/ Cardinality({ k \in 1..Len(ds) : ds[k] = 46 }) > 1
       \/ SelectSeq(ds, IsDigit) = <<>>
    THEN None
    ELSE Some(F((IF neg THEN -1 ELSE 1) * DecimalValue(SelectSeq(ds, IsDigit)),
                IF FindByte(ds, 46, 1) = 0 THEN 0 ELSE Len(ds) - FindByte(ds, 46, 1)))

ParseF32(v) == ParseDecimal(Unsigned(v, {43, 45}), v /= <<>> /\ v[1] = 45)

\* mode.parse::<u8>()?.try_into()?: MeasurementMode::Ampere = 1, Source = 2
ModeFromU8(o) ==
    IF o = Some(1) THEN Some("Ampere") ELSE IF o = Some(2) THEN Some("Source") ELSE None

ParseMode(v) == ModeFromU8(ParseUnsigned(v, 255))

\* The arms Some((key, value)) of the match in from_bytes: the key, the field
\* it assigns and the type its value is parsed as.
KeyTable ==
    {
      [key |-> <<67, 97, 108, 105, 98, 114, 97, 116, 101, 100>>, field |-> "calibrated", index |-> 0, ty |-> "bool"],
      [key |-> <<82, 48>>, field |-> "r", index |-> 0, ty |-> "f32"],
      [key |-> <<82, 49>>, field |-> "r", index |-> 1, ty |-> "f32"],
      [key |-> <<82, 50>>, field |-> "r", index |-> 2, ty |-> "f32"],
      [key |-> <<82, 51>>, field |-> "r", index |-> 3, ty |-> "f32"],
      [key |-> <<82, 52>>, field |-> "r", index |-> 4, ty |-> "f32"],
      [key |-> <<71, 83, 48>>, field |-> "gs", index |-> 0, ty |-> "f32"],
      [key |-> <<71, 83, 49>>, field |-> "gs", index |-> 1, ty |-> "f32"],
      [key |-> <<71, 83, 50>>, field |-> "gs", index |-> 2, ty |-> "f32"],
      [key |-> <<71, 83, 51>>, field |-> "gs", index |-> 3, ty |-> "f32"],
      [key |-> <<71, 83, 52>>, field |-> "gs", index |-> 4, ty |-> "f32"],
      [key |-> <<71, 73, 48>>, field |-> "gi", index |-> 0, ty |-> "f32"],
      [key |-> <<71, 73, 49>>, field |-> "gi", index |-> 1, ty |-> "f32"],
      [key |-> <<71, 73, 50>>, field |-> "gi", index |-> 2, ty |-> "f32"],
      [key |-> <<71, 73, 51>>, field |-> "gi", index |-> 3, ty |-> "f32"],
      [key |-> <<71, 73, 52>>, field |-> "gi", index |-> 4, ty |-> "f32"],
      [key |-> <<79, 48>>, field |-> "o", index |-> 0, ty |-> "f32"],
      [key |-> <<79, 49>>, field |-> "o", index |-> 1, ty |-> "f32"],
      [key |-> <<79, 50>>, field |-> "o", index |-> 2, ty |-> "f32"],
      [key |-> <<79, 51>>, field |-> "o", index |-> 3, ty |-> "f32"],
      [key |-> <<79, 52>>, field |-> "o", index |-> 4, ty |-> "f32"],
      [key |-> <<86, 68, 68>>, field |-> "vdd", index |-> 0, ty |-> "u16"],
      [key |-> <<72, 87>>, field |-> "hw", index |-> 0, ty |-> "u32"],
      [key |-> <<109, 111, 100, 101>>, field |-> "mode", index |-> 0, ty |-> "mode"],
      [key |-> <<83, 48>>, field |-> "s", index |-> 0, ty |-> "f32"],
      [key |-> <<83, 49>>, field |-> "s", index |-> 1, ty |-> "f32"],
      [key |-> <<83, 50>>, field |-> "s", index |-> 2, ty |-> "f32"],
      [key |-> <<83, 51>>, field |-> "s", index |-> 3, ty |-> "f32"],
      [key |-> <<83, 52>>, field |-> "s", index |-> 4, ty |-> "f32"],
      [key |-> <<73, 48>>, field |-> "i", index |-> 0, ty |-> "f32"],
      [key |-> <<73, 49>>, field |-> "i", index |-> 1, ty |-> "f32"],
      [key |-> <<73, 50>>, field |-> "i", index |-> 2, ty |-> "f32"],
      [key |-> <<73, 51>>, field |-> "i", index |-> 3, ty |-> "f32"],
      [key |-> <<73, 52>>, field |-> "i", index |-> 4, ty |-> "f32"],
      [key |-> <<85, 71, 48>>, field |-> "ug", index |-> 0, ty |-> "f32"],
      [key |-> <<85, 71, 49>>, field |-> "ug", index |-> 1, ty |-> "f32"],
      [key |-> <<85, 71, 50>>, field |-> "ug", index |-> 2, ty |-> "f32"],
      [key |-> <<85, 71, 51>>, field |-> "ug", index |-> 3, ty |-> "f32"],
      [key |-> <<85, 71, 52>>, field |-> "ug", index |-> 4, ty |-> "f32"],
      [key |-> <<73, 65>>, field |-> "ia", index |-> 0, ty |-> "u32"]
    }

KeyRows(key) == { row \in KeyTable : row.key = key }

\* The right-hand side of an arm: the value parsed as the field's type.
ParseValue(row, value) ==
    IF row.ty = "bool" THEN Some(value /= <<48>>)
    ELSE IF row.ty = "f32" THEN ParseF32(value)
    ELSE IF row.ty = "u16" THEN ParseUnsigned(value, 65535)
    ELSE IF row.ty = "u32" THEN ParseUnsigned(value, 2147483647)
    ELSE ParseMode(value)

\* The assignment of an arm.
StoreField(metadata, row, x) ==
    IF row.ty = "f32"
    THEN [metadata EXCEPT !.modifiers[row.field][row.index + 1] = x]
    ELSE [metadata EXCEPT ![row.field] = x]

MetaOk(metadata) == [kind |-> "Ok", metadata |-> Some(metadata), line |-> <<>>]
\* Err(Parse(line.to_owned()))
MetaParseErr(line) == [kind |-> "Parse", metadata |-> None, line |-> line]
MetaUtf8Err == [kind |-> "Utf8", metadata |-> None, line |-> <<>>]
MetaContinue(metadata) == [kind |-> "Continue", metadata |-> Some(metadata), line |-> <<>>]

\* An arm with a key: .map_err(|_| Parse(line.to_owned()))? and the assignment
MatchField(metadata, line, row, parsed) ==
    IF parsed = None THEN MetaParseErr(line)
    ELSE MetaContinue(StoreField(metadata, row, Unwrap(parsed)))

\* A mutant of the match: a line with an unknown key is passed over.
MatchKey_IgnoreUnknown(metadata, line, kv, rows) ==
    IF rows = {} THEN MetaContinue(metadata)
    ELSE MatchField(metadata, line, CHOOSE row \in rows : TRUE,
                    ParseValue(CHOOSE row \in rows : TRUE, kv.value))

\* Some((key, value)): the arm of the key, or `_ =>` when no arm has it
MatchKey(metadata, line, kv, rows) ==
    IF rows = {} THEN MetaParseErr(line)
    ELSE MatchField(metadata, line, CHOOSE row \in rows : TRUE,
                    ParseValue(CHOOSE row \in rows : TRUE, kv.value))

\* match line.split_once(": ") { Some((key, value)) => .., 
\*     None if line == "END" => return Ok(metadata),
\*     _ => return Err(Parse(line.to_owned())) }
MatchLine(metadata, line, kv) ==
    IF IsSome(kv) THEN MatchKey(metadata, line, Unwrap(kv), KeyRows(Unwrap(kv).key))
    ELSE IF line = <<69, 78, 68>> THEN MetaOk(metadata)
    ELSE MetaParseErr(line)

\* for line in lines { .. } Ok(metadata), from line k on
RECURSIVE ParseLines(_, _, _)
ParseStep(r, lines, k) ==
    IF r.kind = "Continue" THEN ParseLines(Unwrap(r.metadata), lines, k + 1) ELSE r

ParseLines(metadata, lines, k) ==
    IF k > Len(lines) THEN MetaOk(metadata)
    ELSE ParseStep(MatchLine(metadata, lines[k], split_once(lines[k])), lines, k)

\* A mutant of from_bytes: the check of the last bytes is left out.
from_bytes_NoTerminatorCheck(b) ==
    IF ~Utf8Valid(b) THEN MetaUtf8Err
    ELSE ParseLines(MetadataDefault, Lines(b), 1)

\* Metadata::from_bytes
from_bytes(b) ==
    IF ~Utf8Valid(b) THEN MetaUtf8Err
    ELSE IF ~ends_with(b, END_NL) THEN MetaParseErr(b)
    ELSE ParseLines(MetadataDefault, Lines(b), 1)

(* ---------------- SpecMeta: from_bytes on a blob ----------------------- *)
\* pieces a blob is made of
MaxMetaParts == 3

\* The pieces: the terminator with and without its newline, lines with a
\* known key and a good or bad value, an unknown key, a line without
\* separator, an empty line, a byte that is no UTF-8, and a line that ends
\* with END.
MetaParts ==
    {
      <<69, 78, 68, 10>>,
      <<69, 78, 68>>,
      <<67, 97, 108, 105, 98, 114, 97, 116, 101, 100, 58, 32, 48, 10>>,
      <<67, 97, 108, 105, 98, 114, 97, 116, 101, 100, 58, 32, 69, 78, 68, 10>>,
      <<82, 49, 58, 32, 49, 46, 53, 10>>,
      <<82, 49, 58, 32, 120, 10>>,
      <<66, 111, 103, 117, 115, 58, 32, 49, 10>>,
      <<82, 49, 32, 49, 10>>,
      <<10>>,
      <<255>>,
      <<109, 111, 100, 101, 58, 32, 50, 10>>,
      <<120, 69, 78, 68, 10>>
    }

Blobs == { Concat(ps) : ps \in UNION { [1..n -> MetaParts] : n \in 0..MaxMetaParts } }

InitMeta ==
    /\ AccIdle /\ RedIdle /\ PipeIdle
    /\ params = [pins |-> AllEither, sps |-> 1]
    /\ fin \in { <<b>> : b \in Blobs }
    /\ fout = <<>>
    /\ sc = ScIdle

\* Metadata::from_bytes(&response)
FromBytes ==
    /\ fout = <<>>
    /\ fout' = <<from_bytes(fin[1])>>
    /\ UNCHANGED <<fin, sc>>
    /\ UNCHANGED <<accVars, redVars, pipeVars>>

NextMeta == FromBytes

SpecMeta == InitMeta /\ [][NextMeta]_vars

(***************************************************************************)
(* src/src/lib.rs: Metadata::parse, the parser of the first draft          *)
(***************************************************************************)
\* mode.parse::<u8>()?.try_into()?: Mode::Source = 0x01, Ampere = 0x02
LibModeFromU8(o) ==
    IF o = Some(1) THEN Some("Source") ELSE IF o = Some(2) THEN Some("Ampere") ELSE None

\* The right-hand side of an arm of parse
LibParseValue(row, value) ==
    IF row.ty = "mode" THEN LibModeFromU8(ParseUnsigned(value, 255))
    ELSE ParseValue(row, value)

\* The element an arm of parse assigns: the arms of S0..S4, I0..I4 and
\* UG0..UG4 all assign element 0 of their array.
LibRow(row) ==
    IF row.field \in {"s", "i", "ug"} THEN [row EXCEPT !.index = 0] ELSE row

\* Some((key, value)): the arm of the key, or `_ =>` when no arm has it
LibMatchKey(metadata, line, kv, rows) ==
    IF rows = {} THEN MetaParseErr(line)
    ELSE MatchField(metadata, line, LibRow(CHOOSE row \in rows : TRUE),
                    LibParseValue(CHOOSE row \in rows : TRUE, kv.value))

\* match line.split_once(": ") { .. }
LibMatchLine(metadata, line, kv) ==
    IF IsSome(kv) THEN LibMatchKey(metadata, line, Unwrap(kv), KeyRows(Unwrap(kv).key))
    ELSE IF line = <<69, 78, 68>> THEN MetaOk(metadata)
    ELSE MetaParseErr(line)

\* for line in lines { .. } Ok(metadata), from line k on
RECURSIVE LibParseLines(_, _, _)
LibParseStep(r, lines, k) ==
    IF r.kind = "Continue" THEN LibParseLines(Unwrap(r.metadata), lines, k + 1) ELSE r

LibParseLines(metadata, lines, k) ==
    IF k > Len(lines) THEN MetaOk(metadata)
    ELSE LibParseStep(LibMatchLine(metadata, lines[k], split_once(lines[k])), lines, k)

\* Metadata::parse(bytes, metadata)
parse(b, metadata) ==
    IF ~Utf8Valid(b) THEN MetaUtf8Err
    ELSE IF ~ends_with(b, END_NL) THEN MetaParseErr(b)
    ELSE LibParseLines(IF IsSome(metadata) THEN Unwrap(metadata) ELSE MetadataDefault,
                       Lines(b), 1)

(* ---------------- SpecLines: both parsers on blocks of array lines ----- *)
\* array lines of a block
MaxArrayLines == 2

\* The block of the doc comment of parse and of the test of from_bytes.
ReferenceBlock ==
    Concat(<<
        <<67, 97, 108, 105, 98, 114, 97, 116, 101, 100, 58, 32, 48, 10>>,
        <<82, 48, 58, 32, 49, 48, 48, 51, 46, 51, 53, 48, 54, 10>>,
        <<82, 49, 58, 32, 49, 48, 49, 46, 53, 56, 54, 53, 10>>,
        <<82, 50, 58, 32, 49, 48, 46, 51, 48, 50, 55, 10>>,
        <<82, 51, 58, 32, 48, 46, 57, 54, 51, 54, 10>>,
        <<82, 52, 58, 32, 48, 46, 48, 53, 54, 52, 10>>,
        <<71, 83, 48, 58, 32, 48, 46, 48, 48, 48, 48, 10>>,
        <<71, 83, 49, 58, 32, 49, 49, 50, 46, 55, 56, 57, 48, 10>>,
        <<71, 83, 50, 58, 32, 49, 56, 46, 48, 49, 49, 53, 10>>,
        <<71, 83, 51, 58, 32, 50, 46, 52, 50, 49, 55, 10>>,
        <<71, 83, 52, 58, 32, 48, 46, 48, 55, 50, 57, 10>>,
        <<71, 73, 48, 58, 32, 49, 46, 48, 48, 48, 48, 10>>,
        <<71, 73, 49, 58, 32, 48, 46, 57, 54, 57, 53, 10>>,
        <<71, 73, 50, 58, 32, 48, 46, 57, 54, 48, 57, 10>>,
        <<71, 73, 51, 58, 32, 48, 46, 57, 53, 49, 57, 10>>,
        <<71, 73, 52, 58, 32, 48, 46, 57, 53, 56, 50, 10>>,
        <<79, 48, 58, 32, 49, 49, 50, 46, 57, 52, 50, 48, 10>>,
        <<79, 49, 58, 32, 55, 53, 46, 52, 54, 50, 55, 10>>,
        <<79, 50, 58, 32, 54, 52, 46, 54, 48, 50, 48, 10>>,
        <<79, 51, 58, 32, 53, 48, 46, 52, 57, 56, 51, 10>>,
        <<79, 52, 58, 32, 56, 55, 46, 50, 49, 55, 55, 10>>,
        <<86, 68, 68, 58, 32, 51, 55, 52, 49, 10>>,
        <<72, 87, 58, 32, 57, 49, 55, 51, 10>>,
        <<109, 111, 100, 101, 58, 32, 50, 10>>,
        <<83, 48, 58, 32, 48, 46, 48, 48, 48, 48, 48, 48, 48, 52, 56, 10>>,
        <<83, 49, 58, 32, 48, 46, 48, 48, 48, 48, 48, 48, 53, 57, 54, 10>>,
        <<83, 50, 58, 32, 48, 46, 48, 48, 48, 48, 48, 53, 50, 56, 49, 10>>,
        <<83, 51, 58, 32, 48, 46, 48, 48, 48, 48, 54, 50, 53, 55, 55, 10>>,
        <<83, 52, 58, 32, 48, 46, 48, 48, 50, 57, 52, 48, 55, 52, 51, 10>>,
        <<73, 48, 58, 32, 45, 48, 46, 48, 48, 48, 48, 48, 48, 49, 48, 52, 10>>,
        <<73, 49, 58, 32, 45, 48, 46, 48, 48, 48, 48, 48, 49, 52, 52, 51, 10>>,
        <<73, 50, 58, 32, 48, 46, 48, 48, 48, 48, 51, 54, 52, 51, 57, 10>>,
        <<73, 51, 58, 32, 45, 48, 46, 48, 48, 48, 51, 55, 52, 49, 49, 57, 10>>,
        <<73, 52, 58, 32, 45, 48, 46, 48, 48, 57, 51, 56, 56, 52, 53, 53, 10>>,
        <<85, 71, 48, 58, 32, 49, 46, 48, 48, 10>>,
        <<85, 71, 49, 58, 32, 49, 46, 48, 48, 10>>,
        <<85, 71, 50, 58, 32, 49, 46, 48, 48, 10>>,
        <<85, 71, 51, 58, 32, 49, 46, 48, 48, 10>>,
        <<85, 71, 52, 58, 32, 49, 46, 48, 48, 10>>,
        <<73, 65, 58, 32, 53, 54, 10>>,
        <<69, 78, 68, 10>>
    >>)

\* The value of the array lines: -1.5, which no default has
LineValues == { <<45, 49, 46, 53>> }

\* The lines `Xn: v` of the 35 array keys.
ArrayLines ==
    { row.key \o <<58, 32>> \o v \o <<10>> : row \in {t \in KeyTable : t.ty = "f32"},
                                            v \in LineValues }

\* The reference block, and every block of array lines ended by END.
LineBlocks ==
    {ReferenceBlock} \cup
    { Concat(ps) \o END_NL : ps \in UNION { [1..n -> ArrayLines] : n \in 1..MaxArrayLines } }

InitLines ==
    /\ AccIdle /\ RedIdle /\ PipeIdle
    /\ params = [pins |-> AllEither, sps |-> 1]
    /\ fin \in { <<[parser |-> p, block |-> b]>> : p \in {"from_bytes", "parse"}, b \in LineBlocks }
    /\ fout = <<>>
    /\ sc = ScIdle

\* Metadata::from_bytes(&response) (src/ppk2/src/lib.rs) or
\* Metadata::parse(response, None) (src/src/lib.rs)
ParseBlock ==
    /\ fout = <<>>
    /\ fout' = <<IF fin[1].parser = "from_bytes" THEN from_bytes(fin[1].block)
                 ELSE parse(fin[1].block, None)>>
    /\ UNCHANGED <<fin, sc>>
    /\ UNCHANGED <<accVars, redVars, pipeVars>>

NextLines == ParseBlock

SpecLines == InitLines /\ [][NextLines]_vars

(***************************************************************************)
(* SpecNew: Ppk2::new (src/ppk2/src/lib.rs): the port is opened, the       *)
(* metadata is queried and parsed, the power mode is set                   *)
(***************************************************************************)
\* pieces the device's answer to GetMetaData is made of
MaxNewParts == 2

\* The pieces: END newline, "R1: 1.5", "mode: 1", "Bogus: 1" (an unknown key)
\* and a byte that is no UTF-8.
NewParts ==
    { <<69, 78, 68, 10>>,
      <<82, 49, 58, 32, 49, 46, 53, 10>>,
      <<109, 111, 100, 101, 58, 32, 49, 10>>,
      <<66, 111, 103, 117, 115, 58, 32, 49, 10>>,
      <<255>> }

NewBlocks == { Concat(ps) : ps \in UNION { [1..n -> NewParts] : n \in 0..MaxNewParts } }

\* A call of new(path, mode) to a device that answers GetMetaData with block.
\* log: the commands written to the port; response: what get_metadata read.
NewCall(mode, block) ==
    [pc |-> "open", mode |-> mode, block |-> block, metadata |-> MetadataDefault,
     log |-> <<>>, response |-> None]

InitNew ==
    /\ AccIdle /\ RedIdle /\ PipeIdle
    /\ params = [pins |-> AllEither, sps |-> 1]
    /\ fin \in { <<NewCall(m, b)>> : m \in {1, 2}, b \in NewBlocks }
    /\ fout = <<>>
    /\ sc = ScIdle

\* self.send_command(command) is entered
ScCall(command, block) ==
    [ScIdle EXCEPT !.pc = "write", !.command = command, !.block = block]

\* The port's log after a send_command call: the bytes it wrote, if any.
Logged(log, call) == IF call.out = <<>> THEN log ELSE Append(log, call.out)

NewErr(kind) == <<[kind |-> kind, metadata |-> None]>>

\* serialport::new(path, 9600).timeout(..).flow_control(..).open()?, then the
\* call of get_metadata
NewOpen ==
    /\ fin[1].pc = "open"
    /\ \/ /\ fin' = <<[fin[1] EXCEPT !.pc = "get_metadata"]>>
          /\ sc' = ScCall(Cmd("GetMetaData", <<>>), fin[1].block)
          /\ UNCHANGED fout
       \/ /\ fin' = <<[fin[1] EXCEPT !.pc = "done"]>>
          /\ fout' = NewErr("SerialPort")
          /\ UNCHANGED sc
    /\ UNCHANGED <<accVars, redVars, pipeVars>>

\* get_metadata: let response = self.send_command(GetMetaData)?;
\* Metadata::from_bytes(&response)
get_metadata(result) ==
    IF result[1].kind = "Ok" THEN from_bytes(result[1].value)
    ELSE [kind |-> "Io", metadata |-> None, line |-> <<>>]

\* A mutant of new: an error of get_metadata is passed over.
OnMetadata_GoOn(ppk2, r) ==
    IF r.kind = "Ok"
    THEN [ppk2 EXCEPT !.pc = "set_power_mode", !.metadata = Unwrap(r.metadata)]
    ELSE [ppk2 EXCEPT !.pc = "set_power_mode"]

\* ppk2.metadata = ppk2.get_metadata()?
OnMetadata(ppk2, r) ==
    IF r.kind = "Ok"
    THEN [ppk2 EXCEPT !.pc = "set_power_mode", !.metadata = Unwrap(r.metadata)]
    ELSE [ppk2 EXCEPT !.pc = "done"]

\* ppk2.metadata = ppk2.get_metadata()?; then the call of set_power_mode
NewGetMetadata ==
    /\ fin[1].pc = "get_metadata"
    /\ sc.pc = "done"
    /\ \E r \in {get_metadata(sc.result)} :
       \E p \in {OnMetadata([fin[1] EXCEPT !.log = Logged(@, sc),
                                          !.response = Some(sc.response)], r)} :
          /\ fin' = <<p>>
          /\ IF p.pc = "set_power_mode"
             THEN /\ sc' = ScCall(Cmd("SetPowerMode", <<p.mode>>), <<>>)
                  /\ UNCHANGED fout
             ELSE /\ fout' = NewErr(r.kind)
                  /\ UNCHANGED sc
    /\ UNCHANGED <<accVars, redVars, pipeVars>>

\* ppk2.set_power_mode(mode)?; Ok(ppk2)
NewSetPowerMode ==
    /\ fin[1].pc = "set_power_mode"
    /\ sc.pc = "done"
    /\ fin' = <<[fin[1] EXCEPT !.pc = "done", !.log = Logged(@, sc)]>>
    /\ fout' = IF sc.result[1].kind = "Ok"
               THEN <<[kind |-> "Ok", metadata |-> Some(fin[1].metadata)]>>
               ELSE NewErr("Io")
    /\ UNCHANGED sc
    /\ UNCHANGED <<accVars, redVars, pipeVars>>

NextNew == NewOpen \/ ScWrite \/ ScLoop \/ ScRead \/ NewGetMetadata \/ NewSetPowerMode

SpecNew == InitNew /\ [][NextNew]_vars

(***************************************************************************)
(* SpecSession: a Ppk2 from new to start: set_source_voltage,              *)
(* set_device_power and send_command, then start_measuring_while_matches   *)
(***************************************************************************)
\* calls made between new and start
MaxSessionCalls == 2

\* The calls: set_source_voltage(from_millivolts(3300)),
\* set_device_power(Enabled), and send_command(GetMetaData) answered with a
\* block other than the one new was given ("R3: 7" and END).
SessionCalls ==
    { [method |-> "set_source_voltage",
       command |-> Cmd("RegulatorSet", from_millivolts(3300).raw), block |-> <<>>],
      [method |-> "set_device_power",
       command |-> Cmd("DeviceRunningSet", <<1>>), block |-> <<>>],
      [method |-> "send_command",
       command |-> Cmd("GetMetaData", <<>>), block |-> <<82, 51, 58, 32, 55, 10>> \o END_NL] }

\* A method of the Ppk2 that new returned is called: each of the three is
\* self.send_command(command)
SessionCall ==
    /\ fin[1].pc = "done"
    /\ fout /= <<>> /\ fout[1].kind = "Ok"
    /\ Len(fin[1].log) < 2 + MaxSessionCalls
    /\ \E c \in SessionCalls :
          /\ fin' = <<[fin[1] EXCEPT !.pc = c.method]>>
          /\ sc' = ScCall(c.command, c.block)
    /\ UNCHANGED fout
    /\ UNCHANGED <<accVars, redVars, pipeVars>>

\* A mutant of the methods: set_source_voltage stores the voltage it set.
AfterCall_StoresVdd(ppk2, call) ==
    [ppk2 EXCEPT !.pc = "done", !.log = Logged(@, call),
                 !.metadata.vdd = IF call.command.tag = "RegulatorSet"
                                  THEN 256 * call.command.arg[1] + call.command.arg[2]
                                  ELSE @]

\* self.send_command(..)?; Ok(()): the response is dropped or handed to the
\* caller, self is as it was but for what its port has written
AfterCall(ppk2, call) ==
    [ppk2 EXCEPT !.pc = "done", !.log = Logged(@, call)]

\* The method returns.
SessionReturn ==
    /\ fin[1].pc \in {"set_source_voltage", "set_device_power", "send_command"}
    /\ sc.pc = "done"
    /\ fin' = <<AfterCall(fin[1], sc)>>
    /\ UNCHANGED <<fout, sc>>
    /\ UNCHANGED <<accVars, redVars, pipeVars>>

\* start_measuring_while_matches: let metadata = self.metadata.clone(), moved
\* into the reader, which builds MeasurementAccumulator::new(metadata)
SessionStart ==
    /\ fin[1].pc = "done"
    /\ fout /= <<>> /\ fout[1].kind = "Ok"
    /\ fin' = <<[fin[1] EXCEPT !.pc = "measuring"]>>
    /\ fout' = <<[kind |-> "Measuring", metadata |-> Some(fin[1].metadata)]>>
    /\ UNCHANGED sc
    /\ UNCHANGED <<accVars, redVars, pipeVars>>

NextSession ==
    \/ NewOpen \/ ScWrite \/ ScLoop \/ ScRead \/ NewGetMetadata \/ NewSetPowerMode
    \/ SessionCall \/ SessionReturn \/ SessionStart

SpecSession == InitNew /\ [][NextSession]_vars

(***************************************************************************)
(* Properties of the accumulator (checked under SpecAcc)                   *)
(***************************************************************************)
\* The words of the last feed_into call that arrived with a counter other
\* than the expected one.
GapEvents == { k \in 1..Len(last.events) :
                 /\ IsSome(last.events[k].prev)
                 /\ Unwrap(last.events[k].prev) /= last.events[k].counter }

\* C5: in feed_into of src/src/measurement.rs, a word whose counter differs
\* from the expected counter prev adds exactly (counter - prev) mod 64 to the
\* missed count, also when counter < prev.
C5_MissedGrowsByModularGap ==
    impl = "src" =>
        \A k \in GapEvents :
            last.events[k].added
                = (last.events[k].counter - Unwrap(last.events[k].prev)) % 64

\* C6: a fresh accumulator (src/src/measurement.rs) fed words whose counters
\* each follow the one before modulo 64 reports no missed sample and holds one
\* Measurement per word, the step from 63 to 0 included.
C6_InSequenceNothingMissed ==
    (impl = "src" /\ lost = 0 /\ pending = <<>>) =>
        /\ missed = 0
        /\ Len(measurement_buf) = nwords
        /\ \A k \in 1..Len(last.events) : ~last.events[k].gap

\* C6 happens: two words in sequence, the second with counter 0 after 63.
C6_Witness ==
    /\ impl = "src" /\ lost = 0 /\ pending = <<>>
    /\ nwords = 2
    /\ dev_counter = Some(0)
    /\ state.expected_counter = Some(1)
    /\ missed = 0
    /\ Len(measurement_buf) = 2

\* C7: the first word fed to a fresh accumulator (expected_counter None) is
\* never a gap, whatever its counter: it yields a Measurement, no missed
\* event and no missed count, in both feed_into implementations.
C7_FirstWordIsMeasured ==
    /\ \A k \in 1..Len(last.events) :
          ~IsSome(last.events[k].prev) =>
              /\ ~last.events[k].gap
              /\ last.events[k].added = 0
              /\ last.events[k].pushed = 1
    /\ Len(measurement_buf) >= 1 =>
          /\ "micro_amps" \in DOMAIN measurement_buf[1]
          /\ "actual_counter" \notin DOMAIN measurement_buf[1]

(***************************************************************************)
(* Properties of the chunk reducer (checked under SpecReduce)              *)
(***************************************************************************)
\* C8: the reducer neither underflows nor divides by zero: the denominator of
\* the average is count - missed when count > missed, and 1 otherwise.
C8_DenominatorClamped ==
    rout /= <<>> =>
        /\ rout[1].kind /= "Panic"
        /\ rout[1].kind = "Match" =>
              /\ ~rout[1].micro_amps.wrapped
              /\ rout[1].micro_amps.den
                    = IF Len(rout[1].items) > rin[1].missed
                      THEN Len(rout[1].items) - rin[1].missed
                      ELSE 1

\* How many of the reduced measurements have pin i (1-based) High.
HighCount(items, i) == Cardinality({ k \in 1..Len(items) : items[k].pins[i] = "High" })

\* C9: the reduced pin i is High iff strictly more than count / 2 of the
\* reduced measurements have pin i High, and Low otherwise; never Either.
C9_MajorityVote ==
    (rout /= <<>> /\ rout[1].kind = "Match") =>
        \A i \in 1..8 :
            rout[1].pins[i]
                = IF HighCount(rout[1].items, i) > Len(rout[1].items) \div 2
                  THEN "High" ELSE "Low"

\* C9 happens: 3 of 5 measurements have pin 0 High and the reduced pin 0 is
\* High, while pin 1 is High in fewer and reduced to Low.
C9_Witness ==
    /\ rout /= <<>> /\ rout[1].kind = "Match"
    /\ Len(rout[1].items) = 5
    /\ HighCount(rout[1].items, 1) = 3
    /\ rout[1].pins[1] = "High"
    /\ HighCount(rout[1].items, 2) = 2
    /\ rout[1].pins[2] = "Low"

\* The filter as the specification words it: Either in the pattern matches
\* both levels, Low and High match only themselves.
PassesPattern(m, pattern) ==
    \A j \in 1..8 : pattern[j] = "Either" \/ m.pins[j] = pattern[j]

PassingOf(chunk, pattern) ==
    LET Test(m) == PassesPattern(m, pattern) IN SelectSeq(chunk, Test)

\* C10: combine_matching reduces exactly the measurements whose every pin
\* matches the pattern, and yields NoMatch iff none of the chunk does.
C10_ReducesExactlyTheMatching ==
    rout /= <<>> =>
        /\ rout[1].items = PassingOf(rin[1].chunk, rin[1].pattern)
        /\ (rout[1].kind = "NoMatch") <=> (PassingOf(rin[1].chunk, rin[1].pattern) = <<>>)
        /\ rout[1].kind = "Match" =>
              rout[1].micro_amps.sum
                  = CombineFold(PassingOf(rin[1].chunk, rin[1].pattern),
                                Len(PassingOf(rin[1].chunk, rin[1].pattern))).sum

\* C10 happens: the pattern asks pin 0 Low, a measurement with pin 0 High is
\* left out and another one is reduced.
C10_Witness ==
    /\ rout /= <<>> /\ rout[1].kind = "Match"
    /\ rin[1].pattern[1] = "Low"
    /\ \E k \in 1..Len(rin[1].chunk) : rin[1].chunk[k].pins[1] = "High"
    /\ Len(rout[1].items) >= 1
    /\ Len(rout[1].items) < Len(rin[1].chunk)
(***************************************************************************)
(* Properties of the measuring session (checked under Spec and FairSpec)   *)
(***************************************************************************)
\* C1: the reader thread performs no read on the serial port before the
\* foreground has cleared the serial input buffer and set ready to true: in
\* every interleaving, a reader that is about to read or has read finds the
\* input cleared and ready set, and has consumed none of the stale input.
C1_NoReadBeforeClearAndReady ==
    (rpc \in {"poll", "read", "send"} \/ hist.has_read) => (cleared /\ ready)

C1_Witness ==
    /\ hist.has_read
    /\ cleared /\ ready
    /\ measurement_buf /= <<>> \/ received /= <<>>

\* The capacity the sample channel is described to have, scaled down.
SampleChannelCapacity == 1

\* C2: the sample channel is bounded: in every reachable state it holds at
\* most its capacity of undelivered chunks (the reader blocks in send when it
\* is full).
C2_SampleChannelBounded == Len(meas.queue) <= SampleChannelCapacity

\* C3: every invocation of the stop handle sends on the stop channel, joins
\* the reader, writes AverageStop and returns the session, in this order: a
\* stop handle that has returned has issued the AverageStop write (which the
\* port may have failed), and AverageStop is written only after the reader
\* has terminated.
C3_StopAlwaysWritesAverageStop ==
    /\ spc = "returned" =>
          (sres \in {"Ok", "ErrWrite"} /\ hist.stop_sent /\ rpc = "done")
    /\ (Len(written) >= 1 /\ written[Len(written)] = "AverageStop") => rpc = "done"

\* C4: once the stop handle has sent the stop signal the reader performs at
\* most one more port read and one more chunk send, it eventually terminates,
\* and a consumer that keeps the receiver eventually observes Disconnected.
C4_StopTerminatesReader ==
    /\ [](hist.reads_after_stop <= 1 /\ hist.sends_after_stop <= 1)
    /\ (hist.stop_sent ~> (rpc = "done"))
    /\ ((hist.stop_sent /\ meas.rx) ~> (disconnected \/ ~meas.rx))

C4_Witness ==
    /\ hist.stop_sent
    /\ hist.reads_after_stop = 1
    /\ rpc = "done"
    /\ disconnected
    /\ received /= <<>>

(***************************************************************************)
(* Properties of the command codec and of SourceVoltage                    *)
(***************************************************************************)
\* C11: for GetMetaData, response_complete(buf) is true exactly when buf ends
\* with the four bytes 45 4E 44 0A, for every buffer, the empty one and those
\* shorter than four bytes included.
C11_GetMetaDataCompleteAtTerminator ==
    (fout /= <<>> /\ fin[1].cmd.tag = "GetMetaData") =>
        LET b == fin[1].response
            n == Len(b)
        IN  fout[1] = (/\ n >= 4
                       /\ b[n - 3] = 69 /\ b[n - 2] = 78 /\ b[n - 1] = 68 /\ b[n] = 10)

C11_Witness ==
    /\ fout = <<TRUE>>
    /\ fin[1].cmd.tag = "GetMetaData"
    /\ Len(fin[1].response) = 5

\* C12: for every command other than GetMetaData, response_complete(buf) is
\* true iff buf.len() >= expected_response_len(), that is for every buffer.
C12_OthersCompleteAtExpectedLen ==
    (fout /= <<>> /\ fin[1].cmd.tag /= "GetMetaData") =>
        /\ fout[1] = (Len(fin[1].response) >= expected_response_len(fin[1].cmd))
        /\ fout[1] = TRUE

\* The opcodes as the command table of the specification lists them.
ListedOpcode ==
    [NoOp |-> 0, TriggerSet |-> 1, AvgNumSet |-> 2, TriggerWindowSet |-> 3,
     TriggerIntervalSet |-> 4, TriggerSingleSet |-> 5, AverageStart |-> 6,
     AverageStop |-> 7, RangeSet |-> 8, LcdSet |-> 9, TriggerStop |-> 10,
     DeviceRunningSet |-> 12, RegulatorSet |-> 13, SwitchPointDown |-> 14,
     SwitchPointUp |-> 15, TriggerExtToggle |-> 16, SetPowerMode |-> 17,
     ResUserSet |-> 18, SpikeFilteringOn |-> 21, SpikeFilteringOff |-> 22,
     GetMetaData |-> 25, Reset |-> 32, SetUserGains |-> 37]

\* The bytes a command is to yield: 3 for RegulatorSet, 2 for DeviceRunningSet
\* and SetPowerMode, 1 for the others.
ListedBytes(cmd) ==
    IF cmd.tag = "RegulatorSet" THEN <<13, cmd.arg[1], cmd.arg[2]>>
    ELSE IF cmd.tag = "DeviceRunningSet" THEN <<12, cmd.arg[1]>>
    ELSE IF cmd.tag = "SetPowerMode" THEN <<17, cmd.arg[1]>>
    ELSE <<ListedOpcode[cmd.tag]>>

\* C15: Command::bytes() yields the opcode, then the operand bytes, then None
\* on every further call: 3 bytes for RegulatorSet, 2 for DeviceRunningSet and
\* SetPowerMode, 1 for every other command; distinct commands have distinct
\* opcodes.
C15_BytesAreOpcodeThenOperands ==
    LET cmd == fin[1].cmd
        want == ListedBytes(cmd)
    IN  /\ Len(fout[1]) = fin[1].index
        /\ \A j \in 1..Len(fout[1]) :
              fout[1][j] = IF j <= Len(want) THEN Some(want[j]) ELSE None
        /\ Collect(bytes(cmd)) = want
        /\ \A t1, t2 \in CommandTags : t1 /= t2 => Opcode[t1] /= Opcode[t2]

C15_Witness ==
    /\ fin[1].cmd.tag = "RegulatorSet"
    /\ fin[1].cmd.arg = <<12, 228>>
    /\ fout[1] = <<Some(13), Some(12), Some(228), None, None>>

\* C16: from_millivolts is total on u16: mv is clamped to [800, 5000], and
\* with d = mv - 800 + 32 the bytes are (d / 256) + 3 and d mod 256, with no
\* u16 or u8 overflow; 3300 gives 0x0C, 0xE4.
C16_FromMillivoltsTotal ==
    fout /= <<>> =>
        LET mv == fin[1]
            c == IF mv < 800 THEN 800 ELSE IF mv > 5000 THEN 5000 ELSE mv
            d == c - 800 + 32
        IN  /\ ~fout[1].overflow
            /\ fout[1].raw = <<(d \div 256) + 3, d % 256>>
            /\ (d \div 256) + 3 \in 0..255
            /\ mv = 3300 => fout[1].raw = <<12, 228>>

C16_Witness ==
    /\ fin = <<65535>>
    /\ fout /= <<>>
    /\ fout[1].raw = <<19, 136>>

(***************************************************************************)
(* Properties of send_command (checked under SpecCmd and FairCmd)          *)
(***************************************************************************)
\* C13: in send_command a port read that times out does not abort the
\* command: no call returns the timeout of a read to its caller.
C13_TimeoutDoesNotAbort ==
    sc.pc = "done" => sc.result[1].cause /= "TimedOut"

\* The block holds END newline at its end only.
OnlyAtEnd(b) ==
    /\ ends_with(b, END_NL)
    /\ \A n \in 0..(Len(b) - 1) : ~ends_with(SubSeq(b, 1, n), END_NL)

\* send_command(GetMetaData) has returned Ok and the answer ends with END
\* newline.
MetaDataAnswered ==
    /\ sc.pc = "done"
    /\ sc.command.tag = "GetMetaData"
    /\ ends_with(sc.block, END_NL)
    /\ sc.result[1].kind = "Ok"

\* C14 as stated: send_command(GetMetaData), answered by a block that ends
\* with END newline, returns exactly that block however the block is split
\* into reads.
C14_ReturnsWholeBlock ==
    MetaDataAnswered => sc.result[1].value = sc.block

\* C14, corrected: send_command(GetMetaData) writes the command byte before it
\* reads; answered by a block that ends with END newline and read in pieces of
\* 1 to 128 bytes it terminates, never by a timeout, and returns the bytes read
\* up to the first read that leaves the response ending with END newline: a
\* prefix of the block, and the whole block when END newline occurs at the end
\* of the block only.
C14_ReturnsBlockUpToTerminator ==
    /\ [](sc.response /= <<>> => sc.out = <<25>>)
    /\ [](MetaDataAnswered =>
            /\ sc.out = <<25>>
            /\ ends_with(sc.result[1].value, END_NL)
            /\ sc.result[1].value = SubSeq(sc.block, 1, Len(sc.result[1].value))
            /\ sc.wire = SubSeq(sc.block, Len(sc.result[1].value) + 1, Len(sc.block))
            /\ OnlyAtEnd(sc.block) => sc.result[1].value = sc.block)
    /\ []((sc.pc = "done" /\ sc.command.tag = "GetMetaData" /\ ends_with(sc.block, END_NL))
            => sc.result[1].cause /= "TimedOut")
    /\ (sc.pc = "write") ~> (sc.pc = "done")

\* C14 happens: the block E END newline is returned whole after five reads
\* of one byte, its terminator cut across reads.
C14_Witness ==
    /\ MetaDataAnswered
    /\ sc.block = <<69, 69, 78, 68, 10>>
    /\ sc.reads = 5
    /\ sc.result[1].value = sc.block

(***************************************************************************)
(* Ranges of the accumulator's fields (checked under SpecAcc)              *)
(***************************************************************************)
\* Every sample word with the given range and counter fields, the other
\* fields at their extremes.
WordsWith(range, counter) ==
    { from_le_bytes(WordBytes(adc, range, counter, logic, bit17)) :
        adc \in {0, 16383}, logic \in {0, 255}, bit17 \in {0, 1} }

\* C17: after any sequence of feed_into calls on a fresh accumulator,
\* prev_range is None or in 0..=4 and expected_counter is None or in 0..=63;
\* for every 32-bit word the range after the clamp is in 0..=4 (the raw ranges
\* 5, 6 and 7 give 4) and the counter is in 0..=63.
C17_RangeAndCounterInBounds ==
    /\ state.prev_range \in {None} \cup { Some(r) : r \in 0..4 }
    /\ state.expected_counter \in {None} \cup { Some(c) : c \in 0..63 }
    /\ \A k \in 1..Len(last.events) :
          /\ last.events[k].range \in 0..4
          /\ last.events[k].counter \in 0..63
    /\ nwords = 0 =>
          \A range \in 0..7, counter \in 0..63 :
             \A raw \in WordsWith(range, counter) :
                /\ current_measurement_range(raw) = IF range > 4 THEN 4 ELSE range
                /\ get_counter(raw) = counter

\* C17 happens: a word of raw range 7 and counter 63 has been fed.
C17_Witness ==
    /\ state.prev_range = Some(4)
    /\ state.expected_counter = Some(0)
    /\ \E k \in 1..Len(last.events) :
          last.events[k].range = 4 /\ last.events[k].counter = 63

WellFormed(line) ==
    \E row \in KeyTable :
        /\ Len(line) >= Len(row.key) + 2
        /\ SubSeq(line, 1, Len(row.key) + 2) = row.key \o <<58, 32>>

\* The index of the first line END, or one past the last line.
FirstEnd(lines) ==
    IF \E k \in 1..Len(lines) : lines[k] = <<69, 78, 68>>
    THEN CHOOSE k \in 1..Len(lines) :
            /\ lines[k] = <<69, 78, 68>>
            /\ \A j \in 1..(k - 1) : lines[j] /= <<69, 78, 68>>
    ELSE Len(lines) + 1

\* A line before the first line END that is not Key: Value with a recognized
\* key makes the parse return a Parse error and no Metadata.
StrictParse ==
    (fout /= <<>> /\ Utf8Valid(fin[1])) =>
        \A ls \in {Lines(fin[1])} :
            (\E k \in 1..(FirstEnd(ls) - 1) : ~WellFormed(ls[k])) =>
                (fout[1].kind = "Parse" /\ fout[1].metadata = None)

C20_LinesAfterEndAreAnError ==
    (fout /= <<>> /\ Utf8Valid(fin[1])) =>
        \A ls \in {Lines(fin[1])} :
            FirstEnd(ls) < Len(ls) => fout[1].kind /= "Ok"

(***************************************************************************)
(* Properties of the reader loop (checked under SpecWindow and Spec)       *)
(***************************************************************************)
\* The chunks the reader has sent, in the order the consumer gets them.
Sent == received \o meas.queue

\* The measurements the chunks of a sequence were reduced from.
RECURSIVE ItemsIn(_)
ItemsIn(chunks) ==
    IF chunks = <<>> THEN 0 ELSE Len(Head(chunks).items) + ItemsIn(Tail(chunks))

\* The measurements the reader has decoded so far, when every pin is Either
\* and a chunk carries all the measurements drained for it.
Decoded == ItemsIn(Sent) + ItemsIn(outbox) + Len(measurement_buf)

\* C21: between two iterations of the reader loop, with N measurements
\* decoded and a window of W, exactly N div W chunks have been sent.
C21_OneChunkPerWindow ==
    (rpc = "poll" /\ meas.rx /\ params.pins = AllEither) =>
        Len(Sent) = Decoded \div Window(params.sps)

\* C22: the consumer receives the chunks in the order the reader sent them
\* and each chunk once: what has been sent, received or still queued, only
\* grows at its end, and the consumer's list grows by the oldest queued chunk.
C22_ChunksReceivedInOrder ==
    [][/\ Len(Sent') >= Len(Sent)
       /\ SubSeq(Sent', 1, Len(Sent)) = Sent
       /\ Len(Sent') <= Len(Sent) + 1
       /\ received' /= received =>
            (meas.queue /= <<>> /\ received' = Append(received, meas.queue[1]))]_vars

\* C22 happens: two different chunks have been received.
C22_Witness ==
    /\ Len(received) = 2
    /\ received[1] /= received[2]

(***************************************************************************)
(* Properties of Ppk2::new (checked under SpecNew)                         *)
(***************************************************************************)
\* C23: new writes GetMetaData first and SetPowerMode(mode) only after the
\* response was read and parsed; when reading or parsing fails new returns
\* the error and SetPowerMode is never written; on success the session holds
\* exactly the metadata parsed from the response.
C23_MetadataThenPowerMode ==
    \A ppk2 \in {fin[1]} :
        /\ Len(ppk2.log) <= 2
        /\ Len(ppk2.log) >= 1 => ppk2.log[1] = <<25>>
        /\ Len(ppk2.log) = 2 =>
              /\ ppk2.log[2] = <<17, ppk2.mode>>
              /\ IsSome(ppk2.response)
              /\ from_bytes(Unwrap(ppk2.response)).kind = "Ok"
        /\ (sc.command = Cmd("GetMetaData", <<>>) /\ sc.result /= <<>>
              /\ get_metadata(sc.result).kind /= "Ok" /\ ppk2.pc /= "get_metadata") =>
              /\ fout = NewErr(get_metadata(sc.result).kind)
              /\ Len(ppk2.log) <= 1
        /\ (fout /= <<>> /\ fout[1].kind = "Ok") =>
              /\ Len(ppk2.log) = 2
              /\ fout[1].metadata = from_bytes(Unwrap(ppk2.response)).metadata

\* C23 happens: new returned a session whose metadata holds the mode the
\* device reported, after both commands were written.
C23_Witness ==
    /\ fout /= <<>> /\ fout[1].kind = "Ok"
    /\ Unwrap(fout[1].metadata).mode = "Ampere"
    /\ fin[1].log = << <<25>>, <<17, 2>> >>

(***************************************************************************)
(* Properties of the reader's error paths and of the order of start        *)
(* (checked under Spec and FairSpec)                                       *)
(***************************************************************************)
\* The step is no port read of the reader and no send: nothing is fed, no
\* byte leaves the wire, no chunk is queued.
NoReadNoSend ==
    /\ <<state, abuf, measurement_buf, missed, outbox>>' =
            <<state, abuf, measurement_buf, missed, outbox>>
    /\ Len(pending') >= Len(pending)
    /\ Len(meas'.queue) <= Len(meas.queue)
    /\ hist'.has_read = hist.has_read

\* C24: when a port read of the reader fails with an I/O error the reader
\* ends: it reads and sends nothing more, its sender is dropped when it is
\* done, and a consumer that goes on receiving gets the chunks already sent
\* and then Disconnected.
C24_ReadErrorEndsReader ==
    /\ [](rres = "ErrIo" => rpc \in {"ret", "done"})
    /\ [](rpc = "done" => ~meas.tx)
    /\ [](disconnected => (meas.queue = <<>> /\ ~meas.tx))
    /\ [][rres = "ErrIo" => NoReadNoSend]_vars
    /\ ((rres = "ErrIo" /\ fpc = "returned") ~> (disconnected \/ ~meas.rx))

\* C24 happens: after a read error the consumer has drained a chunk and has
\* been told Disconnected.
C24_Witness ==
    /\ rres = "ErrIo"
    /\ Len(received) >= 1
    /\ disconnected

\* C25: the stop channel is polled before each port read: the reader goes to
\* a read only from a poll that found no signal; once the signal is sent it
\* starts at most one more read and sends at most one more chunk, and it
\* returns Ok only for a signal.
C25_StopPolledBeforeEachRead ==
    /\ [][(rpc' = "read" /\ rpc /= "read") => (rpc = "poll" /\ sig.queued = 0)]_vars
    /\ [][(rpc = "read" /\ rpc' /= "read") => rpc' \in {"poll", "send", "ret"}]_vars
    /\ [][(rpc = "send" /\ rpc' /= "send") => rpc' \in {"poll", "ret"}]_vars
    /\ [](hist.reads_after_stop <= 1)
    /\ [](hist.sends_after_stop <= 1)
    /\ [](rres = "Ok" => hist.stop_sent)

\* C25 happens: the signal came while the reader was in a read, the reader
\* read and sent once more and returned Ok.
C25_Witness ==
    /\ hist.reads_after_stop = 1
    /\ hist.sends_after_stop = 1
    /\ rres = "Ok"

\* C26: start spawns the reader, clears the input, sets ready and notifies,
\* writes AverageStart, in this order: ready is true only after a clear that
\* succeeded, AverageStart is written only with ready true, and the clear
\* comes after the spawn.
C26_StartOrder ==
    /\ [](cleared => rpc /= "unborn")
    /\ [](ready => cleared)
    /\ [](written /= <<>> => (ready /\ written[1] = "AverageStart"))
    /\ [][cleared' /= cleared => (fpc = "spawned" /\ ~ready)]_vars
    /\ [][ready' /= ready => (cleared /\ mutex = "fg" /\ written = <<>>)]_vars
    /\ [][(written = <<>> /\ written' /= <<>>) => (ready /\ fpc = "notified")]_vars

\* C26 happens: start has written AverageStart.
C26_Witness ==
    /\ written = <<"AverageStart">>
    /\ fpc = "started"
    /\ ready /\ cleared

\* C27: with the receiver dropped, the reader's next send fails and the reader
\* ends with the error; after the failed send it reads nothing more.
C27_SendErrorEndsReader ==
    /\ [][(rpc = "send" /\ ~meas.rx /\ rpc' /= rpc) =>
            (rres' = "ErrSendMeasurement" /\ rpc' = "ret" /\ meas'.queue = meas.queue)]_vars
    /\ [](rres = "ErrSendMeasurement" => (rpc \in {"ret", "done"} /\ ~meas.rx))
    /\ [][rres = "ErrSendMeasurement" => NoReadNoSend]_vars

\* C27 happens: the reader has ended with the send error.
C27_Witness ==
    /\ rres = "ErrSendMeasurement"
    /\ rpc = "done"
    /\ ~meas.rx

(***************************************************************************)
(* Properties of the window (checked under SpecWindow)                     *)
(***************************************************************************)
\* C28: between two iterations of the reader loop the deque holds fewer than
\* W measurements; a chunk is made only from a read, of the whole deque, for
\* the pins asked for and with the missed count accumulated so far; missed
\* goes back to 0 with the send of the chunk and at no other step.
C28_WindowDrained ==
    /\ [](rpc = "poll" => Len(measurement_buf) < Window(params.sps))
    /\ [][(outbox = None /\ outbox' /= None) =>
            /\ rpc = "read"
            /\ measurement_buf' = <<>>
            /\ \A o \in {Unwrap(outbox')} :
                  /\ Len(o.items) >= Len(PassingOf(measurement_buf, params.pins))
                  /\ SubSeq(o.items, 1, Len(PassingOf(measurement_buf, params.pins)))
                        = PassingOf(measurement_buf, params.pins)
                  /\ \A k \in 1..Len(o.items) : PassesPattern(o.items[k], params.pins)
                  /\ params.pins = AllEither => Len(o.items) >= Window(params.sps)
                  /\ o.kind = "Match" => o.micro_amps.den = Len(o.items) - missed']_vars
    /\ [][(rpc = "send" /\ rpc' = "poll") =>
            (missed' = 0 /\ meas'.queue = Append(meas.queue, Unwrap(outbox)))]_vars
    /\ [][missed' < missed => (rpc = "send" /\ rpc' = "poll")]_vars

\* C28 happens: a chunk of more samples than a window, reduced with a missed
\* count above 0, has been sent and missed is 0 again.
C28_Witness ==
    /\ rpc = "poll"
    /\ missed = 0
    /\ Len(Sent) >= 1
    /\ Sent[1].kind = "Match"
    /\ Len(Sent[1].items) > Window(params.sps)
    /\ Sent[1].micro_amps.den < Len(Sent[1].items)

(***************************************************************************)
(* Properties of get_adc_result (checked under SpecAdc)                    *)
(***************************************************************************)
\* C29: the range-switch block runs for a sample iff the previous range
\* differs from the sample's or after_spike was above 0; after_spike is one
\* less after a sample for which the block ran and unchanged after any
\* other; prev_range is the sample's range after every sample.
C29_BlockRunsOnRangeSwitch ==
    fout /= <<>> =>
        \A e \in {fout[1]} :
            /\ e.fired <=> \/ (IsSome(e.before.prev_range) /\ e.before.prev_range /= Some(e.range))
                           \/ e.before.after_spike > 0
            /\ e.fired => state.after_spike = e.before.after_spike - 1
            /\ ~e.fired => /\ state.after_spike = e.before.after_spike
                           /\ state.consecutive_range_sample =
                                e.before.consecutive_range_sample
            /\ state.prev_range = Some(e.range)

\* C29 happens: the block has run for the second time.
C29_Witness ==
    /\ fout /= <<>>
    /\ fout[1].fired
    /\ fout[1].before.after_spike = -1
    /\ state.after_spike = -2

\* The rolling average avg updated with the calibrated value c, alpha in
\* percent.
Updated(avg, c, pct) ==
    IF avg = None THEN Some(c) ELSE Some((pct * c + (100 - pct) * avg[1]) \div 100)

\* C30: when the block runs with range 4 and consecutive_range_sample below
\* 2, both rolling averages are what they were before the sample and the old
\* rolling_avg_4 is returned; with range 4 and consecutive_range_sample of 2
\* or more the updated rolling_avg_4 is returned; in any other range the
\* updated rolling_avg; when the block does not run, the calibrated value.
C30_ReturnedValue ==
    fout /= <<>> =>
        \A e \in {fout[1]} :
            /\ (e.fired /\ e.range = 4 /\ state.consecutive_range_sample < 2) =>
                  /\ state.rolling_avg_4 = e.before.rolling_avg_4
                  /\ state.rolling_avg = e.before.rolling_avg
                  /\ Some(e.adc) = e.before.rolling_avg_4
            /\ (e.fired /\ e.range = 4 /\ state.consecutive_range_sample >= 2) =>
                  /\ Some(e.adc) = Updated(e.before.rolling_avg_4, e.calibrated, 6)
                  /\ state.rolling_avg_4 = Some(e.adc)
                  /\ state.rolling_avg = Updated(e.before.rolling_avg, e.calibrated, 18)
            /\ (e.fired /\ e.range /= 4) =>
                  /\ Some(e.adc) = Updated(e.before.rolling_avg, e.calibrated, 18)
                  /\ state.rolling_avg = Some(e.adc)
            /\ ~e.fired => e.adc = e.calibrated

\* C30 happens: the block has run in range 4 for the second range switch and
\* the value returned is the updated rolling_avg_4, not the sample's own.
C30_Witness ==
    /\ fout /= <<>>
    /\ fout[1].fired
    /\ fout[1].range = 4
    /\ state.consecutive_range_sample = 2
    /\ fout[1].adc /= fout[1].calibrated
    /\ Some(fout[1].adc) /= state.rolling_avg

(***************************************************************************)
(* Properties of feed_into over a whole stream (checked under SpecFeed)    *)
(***************************************************************************)
\* The word arrived with a counter other than the expected one.
Differs(ev) == IsSome(ev.prev) /\ Unwrap(ev.prev) /= ev.counter

\* The fields of the spike filter.
SpikeFields(st) ==
    <<st.rolling_avg, st.rolling_avg_4, st.prev_range, st.after_spike,
      st.consecutive_range_sample>>

\* The Measurements of a deque.
MeasurementsOf(deque) == SelectSeq(deque, LAMBDA m : "micro_amps" \in DOMAIN m)

RECURSIVE AddedUpTo(_, _)
AddedUpTo(events, k) == IF k = 0 THEN 0 ELSE AddedUpTo(events, k - 1) + events[k].added

\* C31: a word whose counter differs from the expected counter produces no
\* Measurement and leaves the fields of the spike filter as they were;
\* expected_counter is (counter + 1) mod 64 after every word, gap or not; the
\* word that follows a gap with the successor counter is decoded to a
\* Measurement and adds nothing to the missed count.
C31_GapLeavesFilterAlone ==
    \A E \in {last.events} :
        /\ \A k \in 1..Len(E) :
              /\ E[k].after.expected_counter = Some((E[k].counter + 1) % 64)
              /\ E[k].before = (IF k = 1 THEN NewAccumulatorState ELSE E[k - 1].after)
              /\ Differs(E[k]) => SpikeFields(E[k].after) = SpikeFields(E[k].before)
              /\ (k > 1 /\ Differs(E[k - 1]) /\ E[k].counter = (E[k - 1].counter + 1) % 64) =>
                    /\ ~Differs(E[k])
                    /\ E[k].added = 0
                    /\ E[k].pushed = 1
        /\ Len(E) > 0 => state = E[Len(E)].after
        /\ missed = AddedUpTo(E, Len(E))
        /\ Len(MeasurementsOf(measurement_buf))
             <= Cardinality({k \in 1..Len(E) : ~Differs(E[k])})
        /\ impl = "src" =>
              Len(MeasurementsOf(measurement_buf))
                = Cardinality({k \in 1..Len(E) : ~Differs(E[k])})

\* C31 happens: the second of three words came after a lost sample and left
\* the filter alone, the third followed it and was measured.
C31_Witness ==
    /\ impl = "src"
    /\ Len(last.events) = 3
    /\ Differs(last.events[2])
    /\ ~Differs(last.events[3])
    /\ last.events[2].counter = 2
    /\ last.events[2].range /= last.events[1].range
    /\ SpikeFields(last.events[2].after) = SpikeFields(last.events[1].after)
    /\ Len(measurement_buf) = 2
    /\ missed = 1

\* C37: feed_into does not depend on how the bytes are split into calls:
\* after any sequence of calls, empty chunks and chunks that end inside a
\* word included, the deque and the total missed count are those of a single
\* call with all the bytes fed so far, and the accumulator's own buffer holds
\* fewer than 4 bytes.
C37_PartitionIndependent ==
    /\ Len(abuf) < 4
    /\ \A one \in {feed_into(impl, ModelMetadata, NewAccumulatorState, <<>>, last.fed, <<>>)} :
          /\ one.deque = measurement_buf
          /\ one.samples_missed = missed
          /\ one.state = state
          /\ one.buf = abuf

\* C37 happens: three words were fed in chunks of which one was empty and
\* one ended inside a word, and gave two Measurements and one missed sample.
C37_Witness ==
    /\ impl = "src"
    /\ Len(last.fed) = 12
    /\ last.empty
    /\ last.inside
    /\ pending = <<>>
    /\ abuf = <<>>
    /\ Len(measurement_buf) = 2
    /\ missed = 1

(***************************************************************************)
(* Properties of the session's use of the serial port (checked under Spec) *)
(***************************************************************************)
\* The reader thread has been spawned and has not terminated.
ReaderAlive == rpc \notin {"unborn", "done"}

\* C32: while the reader thread is alive the foreground takes no byte from
\* the serial input and the reader writes nothing: the only write is
\* AverageStart, by the foreground during start; input bytes leave the port
\* only by the reader's read or by the foreground's clear; AverageStop is
\* written only once the reader has been joined.  send_command reads nothing
\* for AverageStart and AverageStop, whose response is complete when empty.
C32_ReadsOnReaderWritesOnForeground ==
    [][ /\ response_complete(Cmd("AverageStart", 0), <<>>)
        /\ response_complete(Cmd("AverageStop", 0), <<>>)
        /\ (ReaderAlive /\ written' /= written) =>
              /\ written' = Append(written, "AverageStart")
              /\ fpc = "notified" /\ fpc' = "started"
              /\ rpc' = rpc
        /\ (ReaderAlive /\ Len(pending') < Len(pending)) =>
              \/ rpc = "read" /\ rpc' /= rpc /\ fpc' = fpc /\ spc' = spc
              \/ fpc = "spawned" /\ fpc' = "cleared" /\ rpc' = rpc
        /\ (written' /= written /\ written'[Len(written')] = "AverageStop") =>
              /\ rpc = "done"
              /\ spc = "stopping"
      ]_vars

\* C32 happens: the reader has read from the port between the two writes of
\* the foreground and was joined before the second.
C32_Witness ==
    /\ written = <<"AverageStart", "AverageStop">>
    /\ hist.has_read
    /\ rpc = "done"
    /\ rres = "Ok"
    /\ Len(received) >= 1

(***************************************************************************)
(* Properties of the array lines (checked under SpecLines)                 *)
(***************************************************************************)
\* The arrays of the modifiers and the letters of their keys.
ArrayLetters ==
    [r |-> <<82>>, gs |-> <<71, 83>>, gi |-> <<71, 73>>, o |-> <<79>>, s |-> <<83>>,
     i |-> <<73>>, ug |-> <<85, 71>>]

\* The modifiers after the lines from k on, each line `Xn: v` having set
\* element n of array X to v.
RECURSIVE OwnElements(_, _, _)
OwnElements(m, lines, k) ==
    IF k > Len(lines) THEN m
    ELSE IF split_once(lines[k]) = None THEN OwnElements(m, lines, k + 1)
    ELSE OwnElements(
            [X \in DOMAIN m |->
                [n \in 1..5 |->
                    IF Unwrap(split_once(lines[k])).key = ArrayLetters[X] \o <<48 + n - 1>>
                    THEN Unwrap(ParseF32(Unwrap(split_once(lines[k])).value))
                    ELSE m[X][n]]],
            lines, k + 1)

\* C33: in both metadata parsers a line `Xn: v` sets element n of array X to
\* v and leaves every other element alone, and in a block of array lines
\* every scalar field; the reference block gives each of the 35 elements the
\* value under its own key.
C33_ArrayLineSetsOwnElement ==
    fout /= <<>> =>
        /\ fout[1].kind = "Ok"
        /\ Unwrap(fout[1].metadata).modifiers
             = OwnElements(MetadataDefault.modifiers, Lines(fin[1].block), 1)
        /\ fin[1].block /= ReferenceBlock =>
              [Unwrap(fout[1].metadata) EXCEPT !.modifiers = MetadataDefault.modifiers]
                = MetadataDefault

(***************************************************************************)
(* Properties of the window (checked under SpecSps)                        *)
(***************************************************************************)
\* C34: in every session whose reader loop runs, sps is at least 1 and at
\* most SPS_MAX, so that SPS_MAX / sps is defined and at least 1: the reader
\* does not panic on the division, and no chunk is reduced from an empty
\* deque (every pin pattern of these sessions matches every sample).
C34_WindowDefinedAndPositive ==
    /\ rpc \in {"poll", "read", "send"} =>
          /\ params.sps >= 1
          /\ params.sps <= SPS_MAX
          /\ Window(params.sps) >= 1
    /\ ~(rres = "Panic" /\ params.sps = 0)
    /\ \A k \in 1..Len(Sent) : Len(Sent[k].items) >= 1

(***************************************************************************)
(* Properties of the spike filter's state (checked under SpecAdc)          *)
(***************************************************************************)
\* C35: from a fresh accumulator after_spike is at most 0 after every
\* sample; the range-switch block runs only for a sample whose range differs
\* from the previous sample's, and its branch that sets
\* consecutive_range_sample to 0 and after_spike to SPIKE_FILTER_SAMPLES is
\* never taken: each run of the block adds one to consecutive_range_sample.
C35_AfterSpikeNeverPositive ==
    /\ state.after_spike <= 0
    /\ fout /= <<>> =>
          /\ fout[1].before.after_spike <= 0
          /\ fout[1].fired =>
                /\ IsSome(fout[1].before.prev_range)
                /\ Unwrap(fout[1].before.prev_range) /= fout[1].range
                /\ state.consecutive_range_sample
                     = fout[1].before.consecutive_range_sample + 1
                /\ state.after_spike /= SPIKE_FILTER_SAMPLES - 1

\* C35 happens: the block has run for three range switches in a row.
C35_Witness ==
    /\ fout /= <<>>
    /\ fout[1].fired
    /\ state.consecutive_range_sample = 3
    /\ state.after_spike = -3

\* C36: from a fresh accumulator no unwrap of get_adc_result panics: the
\* first sample seeds both rolling averages and prev_range and does not enter
\* the range-switch block; whenever the block runs, both averages were Some
\* before the sample and are Some after it, a roll-back in range 4 included.
C36_UnwrapNeverPanics ==
    fout /= <<>> =>
        /\ ~fout[1].panic
        /\ IsSome(state.rolling_avg) /\ IsSome(state.rolling_avg_4)
        /\ IsSome(state.prev_range)
        /\ fout[1].before.prev_range = None =>
              /\ ~fout[1].fired
              /\ fout[1].before.rolling_avg = None
              /\ fout[1].before.rolling_avg_4 = None
              /\ state.rolling_avg = Some(fout[1].calibrated)
              /\ state.rolling_avg_4 = Some(fout[1].calibrated)
        /\ fout[1].fired =>
              /\ IsSome(fout[1].before.rolling_avg)
              /\ IsSome(fout[1].before.rolling_avg_4)

\* C36 happens: the block ran in range 4 and rolled both averages back to
\* the values they had, which are Some.
C36_Witness ==
    /\ fout /= <<>>
    /\ fout[1].fired
    /\ fout[1].range = 4
    /\ state.consecutive_range_sample = 1
    /\ state.rolling_avg_4 = fout[1].before.rolling_avg_4
    /\ IsSome(state.rolling_avg_4)
    /\ Some(fout[1].adc) = state.rolling_avg_4
    /\ fout[1].adc /= fout[1].calibrated

(***************************************************************************)
(* Properties of the rendezvous (checked under Spec and FairSpec)          *)
(***************************************************************************)
\* C38: the foreground holds the mutex from taking it until start returns,
\* so the reader leaves its wait only once start has returned, with ready
\* set; its first read of the port comes after AverageStart was written, or
\* after start has failed.
C38_FirstReadAfterStart ==
    /\ fpc \in {"locked", "notified", "started", "unwind_locked"} => mutex = "fg"
    /\ rpc \in {"poll", "read", "send", "ret", "done"} =>
          /\ ready
          /\ fpc \in {"returned", "unwind", "unwind_rx", "failed"}
    /\ hist.has_read =>
          \/ written /= <<>> /\ written[1] = "AverageStart" /\ fpc = "returned"
          \/ written = <<>> /\ fpc \in {"unwind", "unwind_rx", "failed"}

\* C38 happens: the reader met the foreground's guard, went on after start
\* had returned, and has read.
C38_Witness ==
    /\ hist.has_read
    /\ written = <<"AverageStart">>
    /\ fpc = "returned"
    /\ rpc = "poll"
    /\ mutex = "reader"
    /\ nwords = 1
    /\ Len(measurement_buf) = 1

\* C39: whenever start returns an error after it has spawned the reader,
\* the reader thread terminates in the end.
C39_FailedStartEndsReader ==
    (fpc = "failed" /\ rpc /= "unborn") ~> (rpc = "done")

(***************************************************************************)
(* Properties of the stored metadata (checked under SpecSession)           *)
(***************************************************************************)
\* What Metadata::from_bytes makes of the answer to the GetMetaData query of
\* new.
MetadataOfNew == from_bytes(Unwrap(fin[1].response)).metadata

====
